---------------------------- MODULE Spec2Model ----------------------------
(***************************************************************************)
(* ContourModule (contour.js) of "The Topography of Care": the Gaussian    *)
(* energy field, the threshold contours and the grid -> pixel / grid ->    *)
(* geographic transforms, as a state machine over the module's public      *)
(* operations.                                                             *)
(*                                                                         *)
(* Numbers.  The source computes in IEEE doubles and stores the field in a *)
(* Float32Array.  The model is exact integer / rational arithmetic:        *)
(*   - degrees are integers in units of 0.001 degree (sigma 0.006 = 6);    *)
(*   - energies are integers in units of 1/EnergyScale (amplitude 1.0 =    *)
(*     1000000, the 0.01 floor = 10000);                                   *)
(*   - Math.exp is the table ExpTab of round(EnergyScale * exp(-k/8)), the *)
(*     argument rounded down to eighths; past the table the result is 0,   *)
(*     as exp underflows to 0 in the Float32Array for large arguments;     *)
(*   - a quotient the source keeps as a double (thresholds, normalized     *)
(*     values) is a record [num, den]; den = 0 is the non-finite result of *)
(*     a division by zero (0/0 = NaN, n/0 = Infinity);                     *)
(*   - a pixel vertex <<px, py>> is held as the numerators of              *)
(*     px = pxNum / gridWidth and py = pyNum / gridHeight.                 *)
(***************************************************************************)
EXTENDS Integers, Sequences, FiniteSets, Bags, TLC

(***************************************************************************)
(* Bounds of the model.                                                    *)
(***************************************************************************)
\* grid side used for CONFIG.gridWidth and CONFIG.gridHeight (150 in the source)
GridSize == 3
\* value used for CONFIG.contourLevels (12 in the source)
ContourLevels == 3
\* longest resource list passed to process / generateScalarField
MaxResources == 2
\* largest elapsed time (performance.now() difference) a call can measure
MaxElapsed == 1

(***************************************************************************)
(* Program constants.                                                      *)
(***************************************************************************)
\* amplitude 1.0 in energy units
EnergyScale == 1000000
\* the "max < 0.01" floor of generateContours, in energy units
EnergyFloor == 10000
\* CONFIG.cutoffMultiplier
CutoffMultiplier == 3

\* CONFIG.typeParams: sigma in 0.001 degree, amplitude in tenths
TypeParams ==
  [t \in {"hospital", "clinic", "library", "social", "pharmacy",
          "community", "kindergarten"} |->
     CASE t = "hospital"     -> [sigma |-> 6, amplitude |-> 10]
       [] t = "clinic"       -> [sigma |-> 3, amplitude |-> 5]
       [] t = "library"      -> [sigma |-> 5, amplitude |-> 7]
       [] t = "social"       -> [sigma |-> 4, amplitude |-> 8]
       [] t = "pharmacy"     -> [sigma |-> 2, amplitude |-> 3]
       [] t = "community"    -> [sigma |-> 3, amplitude |-> 5]
       [] t = "kindergarten" -> [sigma |-> 2, amplitude |-> 4]]

\* CONFIG.defaultParams
DefaultParams == [sigma |-> 3, amplitude |-> 5]

\* the CONFIG object as constructed (typeParams and defaultParams are the
\* two definitions above; no operation of the model replaces them)
InitialConfig ==
  [gridWidth |-> GridSize, gridHeight |-> GridSize,
   contourLevels |-> ContourLevels, cutoffMultiplier |-> CutoffMultiplier]

\* Math.exp(-k/8) in energy units, k = 0 .. Len(ExpTab) - 1
ExpTab ==
  << 1000000, 882497, 778801, 687289, 606531, 535261, 472367, 416862, 367879, 324652,
     286505, 252840, 223130, 196912, 173774, 153355, 135335, 119433, 105399, 93014,
     82085, 72440, 63928, 56416, 49787, 43937, 38774, 34218, 30197, 26649,
     23518, 20754, 18316, 16163, 14264, 12588, 11109, 9804, 8652, 7635,
     6738, 5946, 5248, 4631, 4087, 3607, 3183, 2809, 2479, 2187,
     1930, 1704, 1503, 1327, 1171, 1033, 912, 805, 710, 627,
     553, 488, 431, 380, 335, 296, 261, 231, 203, 180,
     158, 140, 123, 109, 96, 85, 75, 66, 58, 51,
     45, 40, 35, 31, 28, 24, 21, 19, 17, 15,
     13, 11, 10, 9, 8, 7, 6, 5, 5, 4,
     4, 3, 3, 3, 2, 2, 2, 2, 1, 1,
     1, 1, 1, 1, 1, 1, 1 >>

(***************************************************************************)
(* Arithmetic helpers.                                                     *)
(***************************************************************************)
Max(a, b) == IF a >= b THEN a ELSE b
Min(a, b) == IF a <= b THEN a ELSE b

\* Math.floor(n / d) and Math.ceil(n / d) for d > 0
Floor(n, d) == n \div d
Ceil(n, d) == -((-n) \div d)

\* the value JavaScript's n / d has: a fraction, or NaN / Infinity when d = 0
NaN == [num |-> 0, den |-> 0]
JsDiv(n, d) ==
  IF d = 0 THEN (IF n = 0 THEN NaN ELSE [num |-> (IF n > 0 THEN 1 ELSE -1), den |-> 0])
  ELSE [num |-> n, den |-> d]
IsFinite(q) == q.den # 0

(***************************************************************************)
(* generateScalarField                                                     *)
(***************************************************************************)
\* CONFIG.typeParams[resource.type] || CONFIG.defaultParams
Params(resource) ==
  IF resource.type \in DOMAIN TypeParams THEN TypeParams[resource.type]
  ELSE DefaultParams

\* cutoff = cutoffMultiplier * sigma
Cutoff(resource, cfg) == cfg.cutoffMultiplier * Params(resource).sigma

\* variant: Math.floor(...) without Math.max(0, ...).  With cell = 0 the loop
\* would start at -Infinity, written here as an index below every grid index
\* (the loop "y <= maxY; y++" then never ends)
MinIndexUnclamped(p, cutoff, lo, hi, n) ==
  IF hi = lo THEN (IF p - cutoff - lo < 0 THEN -(n + 1) ELSE n)
  ELSE Floor((p - cutoff - lo) * n, hi - lo)

\* variant: Math.ceil in place of Math.floor at the lower end
MinIndexCeil(p, cutoff, lo, hi, n) ==
  IF hi = lo THEN (IF p - cutoff - lo < 0 THEN 0 ELSE n)
  ELSE Max(0, Ceil((p - cutoff - lo) * n, hi - lo))

\* Math.max(0, Math.floor((p - cutoff - lo) / cell)) with cell = (hi - lo) / n.
\* cell = 0: the quotient is -Infinity (kept at 0 by Math.max), or NaN or
\* +Infinity, for which the loop test "i <= max" is false at once: the value n
\* stands for both, since the upper end never exceeds n - 1.
MinIndex(p, cutoff, lo, hi, n) ==
  IF hi = lo THEN (IF p - cutoff - lo < 0 THEN 0 ELSE n)
  ELSE Max(0, Floor((p - cutoff - lo) * n, hi - lo))

\* Math.min(n - 1, Math.ceil((p + cutoff - lo) / cell)).
\* cell = 0: +Infinity is cut to n - 1; NaN and -Infinity make the loop test
\* false at once: the value -1 stands for both.
MaxIndex(p, cutoff, lo, hi, n) ==
  IF hi = lo THEN (IF p + cutoff - lo > 0 THEN n - 1 ELSE -1)
  ELSE Min(n - 1, Ceil((p + cutoff - lo) * n, hi - lo))

minX(r, b, cfg) == MinIndex(r.lng, Cutoff(r, cfg), b.west, b.east, cfg.gridWidth)
maxX(r, b, cfg) == MaxIndex(r.lng, Cutoff(r, cfg), b.west, b.east, cfg.gridWidth)
minY(r, b, cfg) == MinIndex(r.lat, Cutoff(r, cfg), b.south, b.north, cfg.gridHeight)
maxY(r, b, cfg) == MaxIndex(r.lat, Cutoff(r, cfg), b.south, b.north, cfg.gridHeight)

\* the cell (x, y) is visited by the two nested loops of resource r
InSubRange(r, x, y, b, cfg) ==
  /\ minX(r, b, cfg) <= x /\ x <= maxX(r, b, cfg)
  /\ minY(r, b, cfg) <= y /\ y <= maxY(r, b, cfg)

\* dLat = cellLat - resource.lat = dLatNum / (2 * gridHeight)
dLatNum(r, y, b, cfg) ==
  2 * cfg.gridHeight * (b.south - r.lat) + (2 * y + 1) * (b.north - b.south)
\* dLng = cellLng - resource.lng = dLngNum / (2 * gridWidth)
dLngNum(r, x, b, cfg) ==
  2 * cfg.gridWidth * (b.west - r.lng) + (2 * x + 1) * (b.east - b.west)

\* distSq = dLatSq + dLng * dLng = DistSqNum / DistSqDen
DistSqNum(r, x, y, b, cfg) ==
  dLatNum(r, y, b, cfg) * dLatNum(r, y, b, cfg) * cfg.gridWidth * cfg.gridWidth
  + dLngNum(r, x, b, cfg) * dLngNum(r, x, b, cfg) * cfg.gridHeight * cfg.gridHeight
DistSqDen(cfg) == 4 * cfg.gridWidth * cfg.gridWidth * cfg.gridHeight * cfg.gridHeight

\* Math.exp(-distSq / (2 * sigmaSq)): the exponent in eighths, rounded down
ExpArg(r, x, y, b, cfg) ==
  (8 * DistSqNum(r, x, y, b, cfg))
     \div (DistSqDen(cfg) * 2 * Params(r).sigma * Params(r).sigma)

\* energy = amplitude * Math.exp(-distSq / (2 * sigmaSq))
Energy(r, x, y, b, cfg) ==
  LET k == ExpArg(r, x, y, b, cfg)
  IN  IF k < Len(ExpTab) THEN (Params(r).amplitude * ExpTab[k + 1]) \div 10 ELSE 0

\* variant: the array of the previous call is used again without clearing it
NewFieldReused(old, cfg) ==
  IF DOMAIN old = 0 .. (cfg.gridWidth * cfg.gridHeight - 1) THEN old
  ELSE [c \in 0 .. (cfg.gridWidth * cfg.gridHeight - 1) |-> 0]

\* new Float32Array(gridWidth * gridHeight): all zero, index y * gridWidth + x;
\* old is the array the previous process call filled, which is not read
NewField(old, cfg) == [c \in 0 .. (cfg.gridWidth * cfg.gridHeight - 1) |-> 0]

CellX(c, cfg) == c % cfg.gridWidth
CellY(c, cfg) == c \div cfg.gridWidth

\* variant: "=" in place of "+="
AccumulateOverwrite(old, energy) == energy

\* field[y * gridWidth + x] += energy for one cell of the sub-range
Accumulate(old, energy) == old + energy

\* one iteration of "for (const resource of resources)": the two nested loops
AddResource(f, r, b, cfg) ==
  [c \in DOMAIN f |->
     IF InSubRange(r, CellX(c, cfg), CellY(c, cfg), b, cfg)
     THEN Accumulate(f[c], Energy(r, CellX(c, cfg), CellY(c, cfg), b, cfg))
     ELSE f[c]]

\* variant: the loop consumes the caller's list (resources.shift())
TakeResourceShift(rs, i) == [resource |-> rs[1], rest |-> Tail(rs), next |-> i]

\* the iterator of the for-of loop: the element read, the list left behind
\* and the position of the next element
TakeResource(rs, i) == [resource |-> rs[i], rest |-> rs, next |-> i + 1]


(***************************************************************************)
(* generateContours                                                        *)
(***************************************************************************)
\* options.levels || CONFIG.contourLevels (a missing or zero option is falsy)
numLevels(options, cfg) ==
  IF "levels" \in DOMAIN options /\ options["levels"] # 0
  THEN options["levels"] ELSE cfg.contourLevels

\* the scan "for (const val of field)" over the first n cells: min and max
\* start at +Infinity / -Infinity and are replaced by the first cell
RECURSIVE ScanMin(_, _)
ScanMin(f, n) ==
  IF n = 1 THEN f[0]
  ELSE LET m == ScanMin(f, n - 1) IN IF f[n - 1] < m THEN f[n - 1] ELSE m
RECURSIVE ScanMax(_, _)
ScanMax(f, n) ==
  IF n = 1 THEN f[0]
  ELSE LET m == ScanMax(f, n - 1) IN IF f[n - 1] > m THEN f[n - 1] ELSE m

FieldSize(f) == Cardinality(DOMAIN f)

\* variant: step = (max - min) / numLevels, the last threshold is the maximum
ThresholdNoSkip(min, max, levels, i) ==
  [num |-> min * levels + (max - min) * i, den |-> levels]

\* step = (max - min) / (numLevels + 1); thresholds.push(min + step * i)
Threshold(min, max, levels, i) ==
  [num |-> min * (levels + 1) + (max - min) * i, den |-> levels + 1]
Thresholds(min, max, levels) ==
  [i \in 1 .. levels |-> Threshold(min, max, levels, i)]

\* d3.contours()(field) for one threshold.  The library returns one
\* MultiPolygon per threshold, in the order of the thresholds, whose rings
\* enclose the cells with field >= threshold.  The ring geometry is held as
\* one polygon per such cell, in scan order, with the closed ring of the
\* cell's four corners in grid coordinates.
CellRing(c, cfg) ==
  LET x == CellX(c, cfg)
      y == CellY(c, cfg)
  IN  << <<x, y>>, <<x + 1, y>>, <<x + 1, y + 1>>, <<x, y + 1>>, <<x, y>> >>
RECURSIVE CellsAbove(_, _, _)
CellsAbove(f, v, n) ==
  IF n = 0 THEN << >>
  ELSE IF f[n - 1] * v.den >= v.num
       THEN Append(CellsAbove(f, v, n - 1), n - 1)
       ELSE CellsAbove(f, v, n - 1)
d3contour(f, v, cfg) ==
  LET cells == CellsAbove(f, v, FieldSize(f))
  IN  [type |-> "MultiPolygon", value |-> v,
       coordinates |-> [p \in DOMAIN cells |-> << CellRing(cells[p], cfg) >>]]
d3contours(f, thresholds, cfg) ==
  [i \in DOMAIN thresholds |-> d3contour(f, thresholds[i], cfg)]

\* variant: the value is divided by the maximum, the minimum is ignored
normalizedValueByMax(value, min, max) == JsDiv(value.num, value.den * max)

\* contour.normalizedValue = (contour.value - min) / (max - min)
normalizedValue(value, min, max) ==
  JsDiv(value.num - min * value.den, value.den * (max - min))

\* variant: the floor test is dropped (only a negative maximum is skipped)
NoSignificantDataNegative(min, max) == max < 0
\* variant: "<=" in place of "<"
NoSignificantDataInclusive(min, max) == max <= EnergyFloor

\* "if (max < 0.01) return []"
NoSignificantData(min, max) == max < EnergyFloor

generateContours(f, options, cfg) ==
  LET min == ScanMin(f, FieldSize(f))
      max == ScanMax(f, FieldSize(f))
      cs  == d3contours(f, Thresholds(min, max, numLevels(options, cfg)), cfg)
  IN  IF NoSignificantData(min, max) THEN << >>
      ELSE [i \in DOMAIN cs |->
              [type |-> cs[i].type, value |-> cs[i].value,
               coordinates |-> cs[i].coordinates,
               normalizedValue |-> normalizedValue(cs[i].value, min, max)]]

(***************************************************************************)
(* transformToGeo, transformToPixels                                       *)
(***************************************************************************)
\* coordinates.map(polygon => polygon.map(ring => ring.map(F)))
MapVertices(coordinates, F(_)) ==
  [p \in DOMAIN coordinates |->
     [r \in DOMAIN coordinates[p] |->
        [v \in DOMAIN coordinates[p][r] |-> F(coordinates[p][r][v])]]]

\* the contours array a transform was handed, as the call leaves it.  The
\* transforms build their result with contours.map(contour => ({...contour,
\* <key>: <new arrays>})): a new array of new objects holding new ring arrays;
\* nothing is assigned to the argument.  out is the array returned.
\* variant: the new rings are assigned to the contour objects handed in, and
\* the array returned holds those same objects
ArgumentAfterAssign(cs, out) == out

ArgumentAfterMap(cs, out) == cs

\* variant: the latitude is counted down from the north edge
GeoVertexFlipped(v, b, cfg) ==
  << b.west * cfg.gridWidth + v[1] * (b.east - b.west),
     b.north * cfg.gridHeight - v[2] * (b.north - b.south) >>

\* [bounds.west + x * cellWidth, bounds.south + y * cellHeight], as the
\* numerators over gridWidth and gridHeight
GeoVertex(v, b, cfg) ==
  << b.west * cfg.gridWidth + v[1] * (b.east - b.west),
     b.south * cfg.gridHeight + v[2] * (b.north - b.south) >>

transformToGeo(cs, b, cfg) ==
  [i \in DOMAIN cs |->
     [type |-> cs[i].type, value |-> cs[i].value,
      normalizedValue |-> cs[i].normalizedValue,
      coordinates |->
        LET F(v) == GeoVertex(v, b, cfg) IN MapVertices(cs[i].coordinates, F)]]

\* variant: no vertical flip, "y * scaleY"
PixelVertexNoFlip(v, pb, cfg) ==
  << pb.left * cfg.gridWidth + v[1] * pb.width,
     pb.top * cfg.gridHeight + v[2] * pb.height >>

\* [pixelBounds.left + x * scaleX, pixelBounds.top + (gridHeight - y) * scaleY],
\* as the numerators over gridWidth and gridHeight
PixelVertex(v, pb, cfg) ==
  << pb.left * cfg.gridWidth + v[1] * pb.width,
     pb.top * cfg.gridHeight + (cfg.gridHeight - v[2]) * pb.height >>

transformToPixels(cs, pb, cfg) ==
  [i \in DOMAIN cs |->
     [type |-> cs[i].type, value |-> cs[i].value,
      normalizedValue |-> cs[i].normalizedValue,
      coordinates |-> cs[i].coordinates,
      pixelCoordinates |->
        LET F(v) == PixelVertex(v, pb, cfg) IN MapVertices(cs[i].coordinates, F)]]

\* Object.assign(CONFIG, newConfig): the keys of newConfig replace CONFIG's
updateConfig(cfg, newConfig) ==
  [k \in DOMAIN cfg |-> IF k \in DOMAIN newConfig THEN newConfig[k] ELSE cfg[k]]

(***************************************************************************)
(* Inputs of the public operations.                                        *)
(***************************************************************************)
\* a hospital east of the window whose cutoff still reaches the last column
HospitalEast == [id |-> 1, type |-> "hospital", lat |-> 12, lng |-> 40]
\* a pharmacy near the south-west corner: its sub-range is part of the grid
PharmacySW == [id |-> 2, type |-> "pharmacy", lat |-> 2, lng |-> 2]
\* a point of unrecognized type in the middle of the window
ShelterMid == [id |-> 3, type |-> "shelter", lat |-> 12, lng |-> 12]
Points == {HospitalEast, PharmacySW, ShelterMid}

\* the lists of at most MaxResources distinct points, in every order
ResourceLists ==
  {rs \in UNION {[1 .. n -> Points] : n \in 0 .. MaxResources} :
     \A i, j \in DOMAIN rs : rs[i] = rs[j] => i = j}

\* a hospital whose cutoff window ends one unit west of the square window
HospitalWest == [id |-> 4, type |-> "hospital", lat |-> 12, lng |-> -19]
\* a pharmacy east of the square window, farther than its cutoff
PharmacyFar == [id |-> 5, type |-> "pharmacy", lat |-> 12, lng |-> 40]
\* a clinic north of the square window, farther than its cutoff
ClinicNorth == [id |-> 6, type |-> "clinic", lat |-> 36, lng |-> 12]
\* the points handed to generateScalarField directly
FieldPoints == Points \cup {HospitalWest, PharmacyFar, ClinicNorth}
FieldLists ==
  {rs \in UNION {[1 .. n -> FieldPoints] : n \in 0 .. MaxResources} :
     \A i, j \in DOMAIN rs : rs[i] = rs[j] => i = j}

\* a square window, and a window with south = north (cellHeight = 0)
SquareWindow == [south |-> 0, west |-> 0, north |-> 24, east |-> 24]
FlatWindow == [south |-> 12, west |-> 0, north |-> 12, east |-> 24]
GeoWindows == {SquareWindow, FlatWindow}
\* a window with west = east (cellWidth = 0), and one with both sizes zero
NarrowWindow == [south |-> 0, west |-> 12, north |-> 24, east |-> 12]
PointWindow == [south |-> 12, west |-> 12, north |-> 12, east |-> 12]
\* the windows handed to generateScalarField directly
FieldWindows == GeoWindows \cup {NarrowWindow, PointWindow}

PixelWindows == {[left |-> 10, top |-> 20, width |-> 300, height |-> 150]}
\* a window that is not square and does not start at the origin
OffsetWindow == [south |-> 30, west |-> -60, north |-> 42, east |-> -36]
\* geographic windows handed to transformToGeo directly
DirectGeoWindows == GeoWindows \cup {OffsetWindow}

\* pixel windows handed to transformToPixels directly
DirectPixelWindows ==
  PixelWindows \cup {[left |-> 0, top |-> 0, width |-> 120, height |-> 240]}

\* partial configurations handed to updateConfig
ConfigUpdates ==
  {[k \in {"contourLevels"} |-> ContourLevels - 1],
   [k \in {"contourLevels"} |-> ContourLevels]}

\* options objects handed to generateContours: {}, {levels: 1}, {levels: 2},
\* {levels: 0}
NoOptions == [k \in {} |-> 0]
OptionSets ==
  {NoOptions, [k \in {"levels"} |-> 1], [k \in {"levels"} |-> 2],
   [k \in {"levels"} |-> 0]}

\* fields handed to generateContours directly: all zero, flat and non-zero,
\* maximum just below the floor, maximum exactly at the floor, a ramp from
\* zero, a ramp from a non-zero minimum and a single peak over a plateau
TestFields(cfg) ==
  LET cells == 0 .. (cfg.gridWidth * cfg.gridHeight - 1)
  IN  {[c \in cells |-> 0],
       [c \in cells |-> EnergyScale \div 2],
       [c \in cells |-> IF c = 0 THEN EnergyFloor - 1 ELSE 0],
       [c \in cells |-> IF c = 0 THEN EnergyFloor ELSE 0],
       [c \in cells |-> c * (EnergyScale \div 4)],
       [c \in cells |-> EnergyScale + c * EnergyFloor],
       [c \in cells |-> IF c = 1 THEN EnergyScale ELSE 3 * EnergyFloor]}

\* the one field handed to generateContours between process calls: the ramp
SampleFields(cfg) ==
  {[c \in 0 .. (cfg.gridWidth * cfg.gridHeight - 1) |-> c * (EnergyScale \div 4)]}

(***************************************************************************)
(* State.                                                                  *)
(***************************************************************************)
VARIABLES
  CONFIG,       \* the module's configuration object
  pc,           \* "idle", or the step the running call is at
  op,           \* the public operation running, or the last one that ran
  resources,    \* the caller's resource list, as the running call sees it
  bounds,       \* the caller's geographic window object
  pixelBounds,  \* the caller's pixel window object
  call,         \* the arguments and CONFIG as they were when the call began
  idx,          \* position of the for-of loop over resources
  field,        \* the Float32Array of the running call
  contours,     \* the contours generateContours returned to process
  ret,          \* the value the last operation returned
  last          \* the previous completed process call: arguments and output

vars == <<CONFIG, pc, op, resources, bounds, pixelBounds, call, idx, field,
          contours, ret, last>>

(***************************************************************************)
(* State of App (app.js) and of OverpassModule (overpass.js).              *)
(***************************************************************************)
VARIABLES
  started,      \* App.init has set up the listeners and made the first fetch
  mapView,      \* the map: its zoom and its bounds
  state,        \* App's state object: resources, filteredResources,
                \* isLoading, lastBbox
  page,         \* what the page shows: the canvas, the statistics, the toast
  updateTimer,  \* App's updateTimer: the id setTimeout returned last (ids are
                \* positive), 0 for null
  timers,       \* the pending timeouts of the debounce: id -> time left
  inFlight,     \* the fetchResources calls fetchAndRender awaits: their bbox
  hist          \* history: events and time since the last timer-driven run

appVars == <<started, mapView, state, page, updateTimer, timers, inFlight, hist>>

VARIABLES
  cache,            \* OverpassModule's cache: key -> [data, age]
  endpointIndex,    \* index of the endpoint the next request goes to
  lastRequestTime,  \* Date.now() - lastRequestTime, capped
  fetching,         \* the fetchResources calls that have not returned: the
                    \* bag of their locals
  sent,             \* history: time since the last network request
                    \* (capped), whether one was sent in the last step, and
                    \* the endpoint of the attempt that threw since (-1 for
                    \* none)
  called,           \* history: the number of fetchResources calls made, and
                    \* the bbox of the call made in the last step, if any
  outcome,          \* history: what the call that returned or threw in the
                    \* last step gave, if any, the number of requests it
                    \* had sent and the statement that ended it
  answered          \* history: the status and the Retry-After header of the
                    \* answer an endpoint gave in the last step, if it was
                    \* not an ok one

overpassVars == <<cache, endpointIndex, lastRequestTime, fetching, sent,
                  called, outcome, answered>>

VARIABLES
  parseInput,       \* what parseElements is handed
  parseOutput       \* what it returned, undefined until it has

parseVars == <<parseInput, parseOutput>>

\* the variables of the other modules, which ContourModule never touches
otherVars == <<appVars, overpassVars, parseVars>>

\* no object (an unset local, undefined)
Nothing == << >>

NoCall == [valid |-> FALSE]

Init ==
  /\ CONFIG = InitialConfig
  /\ pc = "idle"
  /\ op = "none"
  /\ resources = Nothing
  /\ bounds = Nothing
  /\ pixelBounds = Nothing
  /\ call = Nothing
  /\ idx = 0
  /\ field = Nothing
  /\ contours = Nothing
  /\ ret = Nothing
  /\ last = NoCall

\* the array of the previous process call, still held by its result object
PreviousField == IF last.valid THEN last.field ELSE Nothing

(***************************************************************************)
(* process                                                                 *)
(***************************************************************************)
\* entry of process: startTime is read and generateScalarField is entered
Process(rs, b, pb) ==
  /\ pc = "idle"
  /\ op' = "process"
  /\ resources' = rs
  /\ bounds' = b
  /\ pixelBounds' = pb
  /\ call' = [resources |-> rs, bounds |-> b, pixelBounds |-> pb,
              config |-> CONFIG, again |-> (op = "process")]
  /\ field' = NewField(PreviousField, CONFIG)
  /\ idx' = 1
  /\ contours' = Nothing
  /\ ret' = Nothing
  /\ pc' = "field"
  /\ UNCHANGED <<CONFIG, last>>
  /\ UNCHANGED otherVars

\* a direct call of generateScalarField
GenerateScalarField(rs, b) ==
  /\ pc = "idle"
  /\ op' = "generateScalarField"
  /\ resources' = rs
  /\ bounds' = b
  /\ pixelBounds' = Nothing
  /\ call' = [resources |-> rs, bounds |-> b, pixelBounds |-> Nothing,
              config |-> CONFIG, again |-> FALSE]
  /\ field' = NewField(PreviousField, CONFIG)
  /\ idx' = 1
  /\ contours' = Nothing
  /\ ret' = Nothing
  /\ pc' = "field"
  /\ UNCHANGED <<CONFIG, last>>
  /\ UNCHANGED otherVars

\* one iteration of the loop over resources
FieldStep ==
  /\ pc = "field"
  /\ idx <= Len(resources)
  /\ LET t == TakeResource(resources, idx)
     IN  /\ field' = AddResource(field, t.resource, bounds, CONFIG)
         /\ resources' = t.rest
         /\ idx' = t.next
  /\ UNCHANGED <<CONFIG, pc, op, bounds, pixelBounds, call, contours, ret, last>>
  /\ UNCHANGED otherVars

\* "return field": back in process, or back at the direct caller
FieldReturn ==
  /\ pc = "field"
  /\ idx > Len(resources)
  /\ IF op = "process"
     THEN /\ pc' = "contours"
          /\ UNCHANGED <<resources, bounds, pixelBounds, call, idx, field, ret>>
     ELSE /\ pc' = "idle"
          /\ ret' = field
          /\ resources' = Nothing
          /\ bounds' = Nothing
          /\ pixelBounds' = Nothing
          /\ idx' = 0
          /\ field' = Nothing
          /\ UNCHANGED call
  /\ UNCHANGED <<CONFIG, op, contours, last>>
  /\ UNCHANGED otherVars

\* step 2 of process: generateContours(field)
ProcessContours ==
  /\ pc = "contours"
  /\ contours' = generateContours(field, NoOptions, CONFIG)
  /\ pc' = "pixels"
  /\ UNCHANGED <<CONFIG, op, resources, bounds, pixelBounds, call, idx, field,
                 ret, last>>
  /\ UNCHANGED otherVars

\* variant: contourLevels reports the configured level count
processStatsConfigured(rs, cs, elapsed, cfg) ==
  [resourceCount |-> Len(rs), contourLevels |-> cfg.contourLevels,
   processingTime |-> elapsed]

\* stats: { resourceCount: resources.length, contourLevels: contours.length,
\* processingTime: elapsed }
processStats(rs, cs, elapsed, cfg) ==
  [resourceCount |-> Len(rs), contourLevels |-> Len(cs),
   processingTime |-> elapsed]

\* step 3 of process: transformToPixels, the elapsed time, the result object
ProcessPixels(elapsed) ==
  /\ pc = "pixels"
  /\ ret' = [contours |-> transformToPixels(contours, pixelBounds, CONFIG),
             field |-> field,
             stats |-> processStats(resources, contours, elapsed, CONFIG)]
  /\ pc' = "done"
  /\ UNCHANGED <<CONFIG, op, resources, bounds, pixelBounds, call, idx, field,
                 contours, last>>
  /\ UNCHANGED otherVars

\* process returns: its locals are gone, the caller holds the result; last
\* records the call for comparison with the next one
ProcessReturn ==
  /\ pc = "done"
  /\ last' = [valid |-> TRUE,
              resources |-> call.resources, bounds |-> call.bounds,
              pixelBounds |-> call.pixelBounds, config |-> call.config,
              contours |-> ret.contours, field |-> ret.field,
              resourceCount |-> ret.stats.resourceCount,
              contourLevels |-> ret.stats.contourLevels]
  /\ pc' = "idle"
  /\ resources' = Nothing
  /\ bounds' = Nothing
  /\ pixelBounds' = Nothing
  /\ call' = Nothing
  /\ idx' = 0
  /\ field' = Nothing
  /\ contours' = Nothing
  /\ UNCHANGED <<CONFIG, op, ret>>
  /\ UNCHANGED otherVars

(***************************************************************************)
(* The other public operations, called directly.                           *)
(***************************************************************************)
GenerateContours(f, options) ==
  /\ pc = "idle"
  /\ op' = "generateContours"
  /\ ret' = generateContours(f, options, CONFIG)
  /\ call' = [field |-> f, options |-> options, config |-> CONFIG]
  /\ UNCHANGED <<CONFIG, pc, resources, bounds, pixelBounds, idx, field,
                 contours, last>>
  /\ UNCHANGED otherVars

\* transformToGeo on the contours a generateContours call returned; call holds
\* the array as it was handed in (contours) and as the call leaves it (passed)
TransformToGeo(b) ==
  /\ pc = "idle"
  /\ op = "generateContours"
  /\ op' = "transformToGeo"
  /\ ret' = transformToGeo(ret, b, CONFIG)
  /\ call' = [contours |-> ret, bounds |-> b, config |-> CONFIG,
              passed |-> ArgumentAfterMap(ret, transformToGeo(ret, b, CONFIG))]
  /\ UNCHANGED <<CONFIG, pc, resources, bounds, pixelBounds, idx, field,
                 contours, last>>
  /\ UNCHANGED otherVars

\* transformToPixels on the contours a generateContours call returned
TransformToPixels(pb) ==
  /\ pc = "idle"
  /\ op = "generateContours"
  /\ op' = "transformToPixels"
  /\ ret' = transformToPixels(ret, pb, CONFIG)
  /\ call' = [contours |-> ret, pixelBounds |-> pb, config |-> CONFIG,
              passed |-> ArgumentAfterMap(ret, transformToPixels(ret, pb, CONFIG))]
  /\ UNCHANGED <<CONFIG, pc, resources, bounds, pixelBounds, idx, field,
                 contours, last>>
  /\ UNCHANGED otherVars

GetConfig ==
  /\ pc = "idle"
  /\ op' = "getConfig"
  /\ ret' = CONFIG
  /\ call' = Nothing
  /\ UNCHANGED <<CONFIG, pc, resources, bounds, pixelBounds, idx, field,
                 contours, last>>
  /\ UNCHANGED otherVars

UpdateConfig(newConfig) ==
  /\ pc = "idle"
  /\ op' = "updateConfig"
  /\ CONFIG' = updateConfig(CONFIG, newConfig)
  /\ ret' = Nothing
  /\ call' = Nothing
  /\ UNCHANGED <<pc, resources, bounds, pixelBounds, idx, field, contours, last>>
  /\ UNCHANGED otherVars

Next ==
  \/ \E rs \in ResourceLists, b \in GeoWindows, pb \in PixelWindows : Process(rs, b, pb)
  \/ \E rs \in ResourceLists, b \in GeoWindows : GenerateScalarField(rs, b)
  \/ FieldStep
  \/ FieldReturn
  \/ ProcessContours
  \/ \E elapsed \in 0 .. MaxElapsed : ProcessPixels(elapsed)
  \/ ProcessReturn
  \/ \E f \in SampleFields(CONFIG) : GenerateContours(f, NoOptions)
  \/ TransformToGeo(SquareWindow)
  \/ \E pb \in PixelWindows : TransformToPixels(pb)
  \/ GetConfig
  \/ \E nc \in ConfigUpdates : UpdateConfig(nc)

\* direct calls of generateContours and of the two transforms on every test
\* field, options object and window, under every configuration
NextContours ==
  \/ \E f \in TestFields(CONFIG), o \in OptionSets : GenerateContours(f, o)
  \/ \E b \in DirectGeoWindows : TransformToGeo(b)
  \/ \E pb \in DirectPixelWindows : TransformToPixels(pb)
  \/ GetConfig
  \/ \E nc \in ConfigUpdates : UpdateConfig(nc)

\* direct calls of generateScalarField on every list of field points and
\* every window, degenerate windows included
NextField ==
  \/ \E rs \in FieldLists, b \in FieldWindows : GenerateScalarField(rs, b)
  \/ FieldStep
  \/ FieldReturn

(***************************************************************************)
(* App (app.js): the debounced map events, fetchAndRender and its loading  *)
(* lock.  Geographic coordinates are integers in units of 0.001 degree:    *)
(* MapModule.getBboxString writes the four bounds with toFixed(6) and      *)
(* isBboxSignificantlyDifferent reads them back with parseFloat, which is  *)
(* exact for such values, so a bbox string is held as the record of its    *)
(* four numbers.  Time is counted in ticks of 250 ms.                      *)
(***************************************************************************)
\* most events counted in one burst (the count saturates there)
MaxBurst == 3
\* most debounce timeouts pending at once, a cap that only a variant of the
\* event handler reaches
MaxTimers == 2
\* most awaited fetchResources calls, a cap that only a variant of the
\* loading lock reaches
MaxInFlight == 2

\* CONFIG.UPDATE_DEBOUNCE_MS = 500, in ticks
UPDATE_DEBOUNCE == 2
\* CONFIG.MIN_ZOOM_LEVEL
MIN_ZOOM_LEVEL == 11
\* CONFIG.MIN_BBOX_MOVE_THRESHOLD = 0.005 degree
MIN_BBOX_MOVE_THRESHOLD == 5
\* CONFIG.BBOX_SIZE_CHANGE_THRESHOLD = 0.15, in percent
BBOX_SIZE_CHANGE_THRESHOLD == 15
\* one degree, the divisor "(height1 || 1)" falls back to
OneDegree == 1000

\* null (state.lastBbox before its first assignment)
null == [null |-> TRUE]

\* the views the map can show: the view the map opens with (zoom 13), that
\* view moved north by 0.003 and by 0.006 degree, the view grown by 16% about
\* its center, a view far away, and a view at zoom 10
HomeView ==
  [zoom |-> 13, bbox |-> [south |-> 0, west |-> 0, north |-> 100, east |-> 100]]
NudgedView ==
  [zoom |-> 13, bbox |-> [south |-> 3, west |-> 0, north |-> 103, east |-> 100]]
NudgedTwiceView ==
  [zoom |-> 13, bbox |-> [south |-> 6, west |-> 0, north |-> 106, east |-> 100]]
GrownView ==
  [zoom |-> 13, bbox |-> [south |-> -8, west |-> -8, north |-> 108, east |-> 108]]
FarView ==
  [zoom |-> 13, bbox |-> [south |-> 200, west |-> 300, north |-> 300, east |-> 400]]
WideView ==
  [zoom |-> 10, bbox |-> [south |-> -350, west |-> -350, north |-> 450, east |-> 450]]
MapViews == {HomeView, NudgedView, NudgedTwiceView, GrownView, FarView, WideView}

\* the number of resources a fetch can resolve with
ResultSizes == {0, 2}

\* the number of resources a fetch can resolve with where filters and clicks
\* are exercised
PanelResultSizes == {0, 3}

\* the keys of state.filters
FilterTypes ==
  {"hospital", "clinic", "library", "social", "pharmacy", "community",
   "kindergarten"}

\* the resources OverpassModule.fetchResources resolves with for the bbox
\* given, the first n of the three that stand in the middle of the bbox: a
\* hospital at the multiple of 0.01 degree next to the center, a clinic
\* 0.001 degree east of it and a hospital 0.001 degree north of it
Fetched(bbox, n) ==
  LET lat == 10 * ((bbox.south + bbox.north) \div 20)
      lng == 10 * ((bbox.west + bbox.east) \div 20)
  IN  SubSeq(<<[id |-> 1, type |-> "hospital", lat |-> lat, lng |-> lng],
               [id |-> 2, type |-> "clinic", lat |-> lat, lng |-> lng + 1],
               [id |-> 3, type |-> "hospital", lat |-> lat + 1, lng |-> lng]>>,
             1, n)

\* a resource list: the bbox it was fetched for and its items ([] at first)
NoResources == [bbox |-> null, items |-> << >>]

\* Math.abs(a - b)
AbsDiff(a, b) == IF a >= b THEN a - b ELSE b - a

\* Math.abs(side1 - side2) / (side1 || 1) > BBOX_SIZE_CHANGE_THRESHOLD
SizeChanged(side1, side2) ==
  LET divisor == IF side1 = 0 THEN OneDegree ELSE side1
  IN  divisor > 0
        /\ 100 * AbsDiff(side1, side2) > BBOX_SIZE_CHANGE_THRESHOLD * divisor

\* isBboxSignificantlyDifferent(bbox1, bbox2); the centers are compared as
\* twice their value
isBboxSignificantlyDifferent(bbox1, bbox2) ==
  IF bbox1 = null \/ bbox2 = null THEN TRUE
  ELSE \/ AbsDiff(bbox1.south + bbox1.north, bbox2.south + bbox2.north)
            > 2 * MIN_BBOX_MOVE_THRESHOLD
       \/ AbsDiff(bbox1.west + bbox1.east, bbox2.west + bbox2.east)
            > 2 * MIN_BBOX_MOVE_THRESHOLD
       \/ SizeChanged(bbox1.north - bbox1.south, bbox2.north - bbox2.south)
       \/ SizeChanged(bbox1.east - bbox1.west, bbox2.east - bbox2.west)

\* variant: the lock is not looked at
AlreadyLoadingIgnored(st) == FALSE

\* "if (state.isLoading) return"
AlreadyLoading(st) == st.isLoading

\* setLoading(loading): state.isLoading and the loading indicator
setLoading(st, loading) == [st EXCEPT !.isLoading = loading]
LoadingShown(pg, loading) == [pg EXCEPT !.loading = loading]

\* variant: the list is kept whole
applyFiltersKeepsAll(st) == [st EXCEPT !.filteredResources = st.resources]

\* applyFilters: state.resources.filter(r => state.filters[r.type])
applyFilters(st) ==
  LET Enabled(r) == r.type \in DOMAIN st.filters /\ st.filters[r.type]
  IN  [st EXCEPT !.filteredResources =
         [bbox |-> st.resources.bbox,
          items |-> SelectSeq(st.resources.items, Enabled)]]

\* variant: the canvas is cleared and the statistics are left standing
ClearedPageStatsKept(pg) == [pg EXCEPT !.canvas = "cleared"]

\* RendererModule.clear(); updateStats([], 0)
ClearedPage(pg) == [pg EXCEPT !.canvas = "cleared", !.total = 0]

\* renderContours: an empty filtered list clears the canvas, any other list
\* is processed and drawn, and the statistics show its length
renderContours(st, pg) ==
  IF Len(st.filteredResources.items) = 0 THEN ClearedPage(pg)
  ELSE [pg EXCEPT !.canvas = "contours",
                  !.total = Len(st.filteredResources.items)]

\* the contours ContourModule.process makes of a list, and state.contours
\* before its first assignment
ContoursOf(list) == [of |-> list.items]
NoContours == null

\* renderContours, its assignment to state.contours: an empty filtered list
\* leaves the contours as they were
renderContoursState(st) ==
  IF Len(st.filteredResources.items) = 0 THEN st
  ELSE [st EXCEPT !.contours = ContoursOf(st.filteredResources)]

\* updateResourceCounts: the sidebar shows, per type, how many of
\* state.resources have it
updateResourceCounts(st, pg) ==
  [pg EXCEPT !.counts =
     [type \in FilterTypes |->
        Cardinality({i \in DOMAIN st.resources.items :
                       st.resources.items[i].type = type})]]

\* showMessage(text, type) and hideMessage()
showMessage(pg, type) == [pg EXCEPT !.toast = type]
hideMessage(pg) == [pg EXCEPT !.toast = "none"]

\* variant: the handler does not cancel the timeout it set before
clearTimeoutSkipped(ts, id) == ts

\* clearTimeout(id): the timeout id is dropped if it is pending
clearTimeout(ts, id) == [i \in DOMAIN ts \ {id} |-> ts[i]]

\* the id setTimeout returns: one no pending timeout has and updateTimer
\* does not hold
NewTimerId(ts, held) ==
  CHOOSE i \in 1 .. (MaxTimers + 2) :
     /\ i \notin DOMAIN ts /\ i # held
     /\ \A j \in 1 .. (i - 1) : j \in DOMAIN ts \/ j = held

\* setTimeout(fetchAndRender, delay) under the id given
setTimeout(ts, id, delay) ==
  [i \in DOMAIN ts \cup {id} |-> IF i = id THEN delay ELSE ts[i]]

\* one more run of fetchAndRender (the history counts them modulo 2)
Ran(h) == [h EXCEPT !.runs = 1 - h.runs]

InitApp ==
  /\ started = FALSE
  /\ mapView = HomeView
  /\ state = [resources |-> NoResources, filteredResources |-> NoResources,
              isLoading |-> FALSE, lastBbox |-> null, selectedResource |-> null,
              contours |-> NoContours,
              filters |-> [type \in FilterTypes |-> TRUE]]
  /\ page = [canvas |-> "blank", total |-> 0, toast |-> "none", loading |-> FALSE,
             counts |-> [type \in FilterTypes |-> 0], panel |-> "hidden",
             theme |-> "light"]
  /\ updateTimer = 0
  /\ timers = << >>
  /\ inFlight = << >>
  /\ hist = [events |-> 0, quiet |-> UPDATE_DEBOUNCE, served |-> 0, runs |-> 0,
             clicks |-> 0, click |-> null, settled |-> "none", ended |-> "none"]

\* fetchAndRender up to its await (or to its early return)
fetchAndRender ==
  IF mapView.zoom < MIN_ZOOM_LEVEL
  THEN /\ page' = ClearedPage(showMessage(page, "info"))
       /\ UNCHANGED <<state, inFlight>>
  ELSE IF ~isBboxSignificantlyDifferent(mapView.bbox, state.lastBbox)
  THEN UNCHANGED <<state, page, inFlight>>
  ELSE IF AlreadyLoading(state)
  THEN UNCHANGED <<state, page, inFlight>>
  ELSE /\ Len(inFlight) < MaxInFlight
       /\ state' = setLoading([state EXCEPT !.lastBbox = mapView.bbox], TRUE)
       /\ page' = LoadingShown(page, TRUE)
       /\ inFlight' = Append(inFlight, mapView.bbox)

\* the history after an awaited fetchResources call has settled (returned
\* or threw) and the fetchAndRender awaiting it has ended (returned or threw)
Ended(h, settled, ended) == [h EXCEPT !.settled = settled, !.ended = ended]

\* the awaited call number i is dropped from the calls in flight
Settled(i) == [j \in 1 .. (Len(inFlight) - 1) |->
                 IF j < i THEN inFlight[j] ELSE inFlight[j + 1]]

\* App.init: the listeners are set up and the first fetchAndRender is made
AppInit ==
  /\ ~started
  /\ started' = TRUE
  /\ fetchAndRender
  /\ hist' = Ran(hist)
  /\ UNCHANGED <<mapView, updateTimer, timers>>
  /\ UNCHANGED <<vars, overpassVars, parseVars>>

\* the listener of map:moveend and of map:zoomend (the two have the same
\* body): the pending timeout is cancelled and a new one is set
\* (h is the history the event is added to)
OnMapEventAfter(h) ==
  LET id == NewTimerId(clearTimeout(timers, updateTimer), updateTimer)
  IN  /\ Cardinality(DOMAIN clearTimeout(timers, updateTimer)) < MaxTimers
      /\ timers' = setTimeout(clearTimeout(timers, updateTimer), id, UPDATE_DEBOUNCE)
      /\ updateTimer' = id
      /\ hist' = [h EXCEPT !.events = Min(h.events + 1, MaxBurst),
                           !.quiet = 0, !.served = 0]
OnMapEvent == OnMapEventAfter(hist)

\* the map was moved to the view v and has dispatched map:moveend
MoveEnd(v) ==
  /\ started
  /\ v # mapView
  /\ v.zoom = mapView.zoom
  /\ mapView' = v
  /\ OnMapEvent
  /\ UNCHANGED <<started, state, page, inFlight>>
  /\ UNCHANGED <<vars, overpassVars, parseVars>>

\* the map was zoomed to the view v and has dispatched map:zoomend
ZoomEnd(v) ==
  /\ started
  /\ v.zoom # mapView.zoom
  /\ mapView' = v
  /\ OnMapEvent
  /\ UNCHANGED <<started, state, page, inFlight>>
  /\ UNCHANGED <<vars, overpassVars, parseVars>>

\* 250 ms pass; a timeout that is due runs before more time passes
Tick ==
  /\ \A i \in DOMAIN timers : timers[i] > 0
  /\ DOMAIN timers # {} \/ hist.quiet < UPDATE_DEBOUNCE
  /\ timers' = [i \in DOMAIN timers |-> timers[i] - 1]
  /\ hist' = [hist EXCEPT !.quiet = Min(hist.quiet + 1, UPDATE_DEBOUNCE)]
  /\ UNCHANGED <<started, mapView, state, page, updateTimer, inFlight>>
  /\ UNCHANGED <<vars, overpassVars, parseVars>>

\* the timeout id is due: its callback, fetchAndRender, runs
TimerFires(id) ==
  /\ id \in DOMAIN timers
  /\ timers[id] = 0
  /\ timers' = [i \in DOMAIN timers \ {id} |-> timers[i]]
  /\ fetchAndRender
  /\ hist' = Ran([hist EXCEPT !.served = hist.events, !.events = 0])
  /\ UNCHANGED <<started, mapView, updateTimer>>
  /\ UNCHANGED <<vars, overpassVars, parseVars>>

\* App.fetchAndRender called through the public API
DirectFetchAndRender ==
  /\ started
  /\ fetchAndRender
  /\ hist' = Ran(hist)
  /\ UNCHANGED <<started, mapView, updateTimer, timers>>
  /\ UNCHANGED <<vars, overpassVars, parseVars>>

\* the awaited fetchResources call number i returns n resources: the rest
\* of the try block, then the finally block
FetchResolves(i, n) ==
  /\ i \in DOMAIN inFlight
  /\ LET fetched == [state EXCEPT !.resources =
                        [bbox |-> inFlight[i], items |-> Fetched(inFlight[i], n)]]
         filtered == applyFilters(fetched)
         rendered == updateResourceCounts(filtered, renderContours(filtered, page))
     IN  /\ state' = setLoading(renderContoursState(filtered), FALSE)
         /\ page' = LoadingShown(hideMessage(rendered), FALSE)
  /\ inFlight' = Settled(i)
  /\ hist' = Ended(hist, "returned", "returned")
  /\ UNCHANGED <<started, mapView, updateTimer, timers>>
  /\ UNCHANGED <<vars, overpassVars, parseVars>>

\* the awaited fetchResources call number i returns n resources and
\* renderContours throws: the try block up to the throw, the catch block,
\* then the finally block
FetchResolvesRenderThrows(i, n) ==
  /\ i \in DOMAIN inFlight
  /\ n > 0
  /\ LET fetched == [state EXCEPT !.resources =
                        [bbox |-> inFlight[i], items |-> Fetched(inFlight[i], n)]]
     IN  /\ state' = setLoading(applyFilters(fetched), FALSE)
         /\ page' = LoadingShown(showMessage(page, "error"), FALSE)
  /\ inFlight' = Settled(i)
  /\ hist' = Ended(hist, "returned", "returned")
  /\ UNCHANGED <<started, mapView, updateTimer, timers>>
  /\ UNCHANGED <<vars, overpassVars, parseVars>>

\* variant: the lock is not released when the call throws
FetchRejectsLockKept(i) ==
  /\ i \in DOMAIN inFlight
  /\ state' = state
  /\ page' = showMessage(page, "error")
  /\ inFlight' = Settled(i)
  /\ hist' = Ended(hist, "threw", "returned")
  /\ UNCHANGED <<started, mapView, updateTimer, timers>>
  /\ UNCHANGED <<vars, overpassVars, parseVars>>

\* variant: the catch block empties the resources and clears the canvas
FetchRejectsResets(i) ==
  /\ i \in DOMAIN inFlight
  /\ state' = setLoading(applyFilters([state EXCEPT !.resources = NoResources]),
                         FALSE)
  /\ page' = LoadingShown(showMessage(ClearedPage(page), "error"), FALSE)
  /\ inFlight' = Settled(i)
  /\ hist' = Ended(hist, "threw", "returned")
  /\ UNCHANGED <<started, mapView, updateTimer, timers>>
  /\ UNCHANGED <<vars, overpassVars, parseVars>>

\* the awaited fetchResources call number i throws: the catch block, then
\* the finally block
FetchRejects(i) ==
  /\ i \in DOMAIN inFlight
  /\ state' = setLoading(state, FALSE)
  /\ page' = LoadingShown(showMessage(page, "error"), FALSE)
  /\ inFlight' = Settled(i)
  /\ hist' = Ended(hist, "threw", "returned")
  /\ UNCHANGED <<started, mapView, updateTimer, timers>>
  /\ UNCHANGED <<vars, overpassVars, parseVars>>

\* handleFilterChange: the checkbox of the type given was set to checked
HandleFilterChange(type, checked) ==
  /\ started
  /\ LET filtered == applyFilters([state EXCEPT !.filters[type] = checked])
     IN  /\ state' = renderContoursState(filtered)
         /\ page' = updateResourceCounts(filtered, renderContours(filtered, page))
  /\ UNCHANGED <<started, mapView, updateTimer, timers, inFlight, hist>>
  /\ UNCHANGED <<vars, overpassVars, parseVars>>

\* "const threshold = 0.002", in 0.001 degree
ClickThreshold == 2

\* the square of Math.sqrt(Math.pow(resource.lat - lat, 2) +
\* Math.pow(resource.lng - lng, 2)); distances are compared by their squares
SquaredDistance(resource, latlng) ==
  (resource.lat - latlng.lat) * (resource.lat - latlng.lat)
    + (resource.lng - latlng.lng) * (resource.lng - latlng.lng)

\* variant: a resource as near as the nearest so far replaces it
CloserOrAsClose(nearest, resource, latlng) ==
  LET dist == SquaredDistance(resource, latlng)
  IN  IF (nearest = null \/ dist <= nearest.dist)
           /\ dist < ClickThreshold * ClickThreshold
      THEN [resource |-> resource, dist |-> dist]
      ELSE nearest

\* the body of the loop of handleMapClick: nearest holds the nearest resource
\* so far and its distance, null standing for (null, Infinity)
Closer(nearest, resource, latlng) ==
  LET dist == SquaredDistance(resource, latlng)
  IN  IF (nearest = null \/ dist < nearest.dist)
           /\ dist < ClickThreshold * ClickThreshold
      THEN [resource |-> resource, dist |-> dist]
      ELSE nearest

\* the loop of handleMapClick over the first n of the resources given
RECURSIVE NearestOf(_, _, _)
NearestOf(rs, n, latlng) ==
  IF n = 0 THEN null
  ELSE Closer(NearestOf(rs, n - 1, latlng), rs[n], latlng)

\* map.panTo([lat, lng]): the view of the same size about the point given
PannedTo(v, lat, lng) ==
  LET height == v.bbox.north - v.bbox.south
      width == v.bbox.east - v.bbox.west
      south == lat - height \div 2
      west == lng - width \div 2
  IN  [v EXCEPT !.bbox = [south |-> south, west |-> west,
                          north |-> south + height, east |-> west + width]]

\* the history after a map click at the point given (the clicks are counted
\* modulo 2)
Clicked(h, latlng) == [h EXCEPT !.clicks = 1 - h.clicks, !.click = latlng]

\* selectResource(resource): the resource is selected and shown in the
\* panel, the map pans to it and dispatches map:moveend
selectResource(resource, latlng) ==
  /\ state' = [state EXCEPT !.selectedResource = resource]
  /\ page' = [page EXCEPT !.panel = "shown"]
  /\ mapView' = PannedTo(mapView, resource.lat, resource.lng)
  /\ OnMapEventAfter(Clicked(hist, latlng))

\* deselectResource(): the selection is cleared and the panel hidden
deselectResource(latlng) ==
  /\ state' = [state EXCEPT !.selectedResource = null]
  /\ page' = [page EXCEPT !.panel = "hidden"]
  /\ hist' = Clicked(hist, latlng)
  /\ UNCHANGED <<mapView, updateTimer, timers>>

\* handleMapClick: the map was clicked at the point given
HandleMapClick(latlng) ==
  /\ started
  /\ LET nearest == NearestOf(state.filteredResources.items,
                              Len(state.filteredResources.items), latlng)
     IN  IF nearest # null THEN selectResource(nearest.resource, latlng)
         ELSE deselectResource(latlng)
  /\ UNCHANGED <<started, inFlight>>
  /\ UNCHANGED <<vars, overpassVars, parseVars>>

\* the types whose checkbox is used
FilterChoices == {"hospital", "clinic"}

\* the view the map is moved to while filters and clicks are exercised
PanelViews == {FarView}

\* the points a click can hit, as offsets from the center of the view: the
\* center, the point 0.001 degree north and east of it, and the point
\* 0.003 degree east of it
ClickOffsets == {<<0, 0>>, <<1, 1>>, <<0, 3>>}
ClickPoints ==
  {[lat |-> (mapView.bbox.south + mapView.bbox.north) \div 2 + o[1],
    lng |-> (mapView.bbox.west + mapView.bbox.east) \div 2 + o[2]] :
     o \in ClickOffsets}

\* the filter panel and the map clicks beside the events of the map
NextPanel ==
  \/ AppInit
  \/ \E v \in PanelViews : MoveEnd(v)
  \/ Tick
  \/ \E id \in DOMAIN timers : TimerFires(id)
  \/ \E i \in DOMAIN inFlight, n \in PanelResultSizes : FetchResolves(i, n)
  \/ \E i \in DOMAIN inFlight : FetchRejects(i)
  \/ \E type \in FilterChoices, checked \in BOOLEAN :
        HandleFilterChange(type, checked)
  \/ \E latlng \in ClickPoints : HandleMapClick(latlng)

\* RendererModule.resize found the canvas of another size: assigning the
\* size empties the canvas, and the listener of renderer:resize draws the
\* contours again if there are filtered resources
RendererResize ==
  /\ started
  /\ state' = renderContoursState(state)
  /\ page' = IF Len(state.filteredResources.items) > 0
               THEN renderContours(state, page)
               ELSE [page EXCEPT !.canvas = "cleared"]
  /\ UNCHANGED <<started, mapView, updateTimer, timers, inFlight, hist>>
  /\ UNCHANGED <<vars, overpassVars, parseVars>>

\* updateUITheme(theme): the page takes the theme and the contours are drawn
\* again if there are filtered resources
updateUITheme(st, pg, theme) ==
  IF Len(st.filteredResources.items) > 0
  THEN renderContours(st, [pg EXCEPT !.theme = theme])
  ELSE [pg EXCEPT !.theme = theme]

\* handleThemeToggle: MapModule.switchTheme takes the other theme and
\* dispatches map:themechange
HandleThemeToggle ==
  /\ started
  /\ state' = renderContoursState(state)
  /\ page' = updateUITheme(state, page,
                           IF page.theme = "light" THEN "dark" ELSE "light")
  /\ UNCHANGED <<started, mapView, updateTimer, timers, inFlight, hist>>
  /\ UNCHANGED <<vars, overpassVars, parseVars>>

\* the views the map shows while the event loop is followed to its end
LiveViews == {HomeView, FarView, WideView}

\* an awaited fetchResources call settles and fetchAndRender runs to its end
Settle ==
  \/ \E i \in DOMAIN inFlight, n \in ResultSizes : FetchResolves(i, n)
  \/ \E i \in DOMAIN inFlight, n \in ResultSizes : FetchResolvesRenderThrows(i, n)
  \/ \E i \in DOMAIN inFlight : FetchRejects(i)

\* time passes and the timeouts that are due run
RunTimers ==
  \/ Tick
  \/ \E id \in DOMAIN timers : TimerFires(id)

NextAppFair ==
  \/ AppInit
  \/ \E v \in LiveViews : MoveEnd(v)
  \/ \E v \in LiveViews : ZoomEnd(v)
  \/ RunTimers
  \/ Settle

\* the checkbox used beside the events of the map, the window and the theme
PageFilterChoices == {"hospital"}

\* the page with the events of the map, the filters, the window and the theme
NextPage ==
  \/ NextAppFair
  \/ \E type \in PageFilterChoices, checked \in BOOLEAN :
        HandleFilterChange(type, checked)
  \/ RendererResize
  \/ HandleThemeToggle

NextApp ==
  \/ AppInit
  \/ \E v \in MapViews : MoveEnd(v)
  \/ \E v \in MapViews : ZoomEnd(v)
  \/ Tick
  \/ \E id \in DOMAIN timers : TimerFires(id)
  \/ DirectFetchAndRender
  \/ \E i \in DOMAIN inFlight, n \in ResultSizes : FetchResolves(i, n)
  \/ \E i \in DOMAIN inFlight : FetchRejects(i)

(***************************************************************************)
(* OverpassModule (overpass.js).  Time is in seconds.  Date.now() is not   *)
(* kept: the cache keeps the age of each entry, Date.now() - timestamp,    *)
(* and the module the age of lastRequestTime, both capped at the value     *)
(* from which the code no longer tells them apart.  Coordinates of a bbox  *)
(* are in 0.0001 degree, those of a cache key in 0.001 degree.             *)
(***************************************************************************)
\* largest number of fetchResources calls made in one behaviour
MaxCalls == 2

\* largest number of fetchResources calls that have not returned
MaxFetching == 2

\* CONFIG.endpoints.length
EndpointCount == 2
\* CONFIG.timeout, 30000 ms
RequestTimeout == 30
\* CONFIG.retryDelay, 2000 ms
retryDelay == 2
\* CONFIG.maxRetries
maxRetries == 2
\* CONFIG.cacheExpiry, 5 * 60 * 1000 ms
cacheExpiry == 300
\* CONFIG.minRequestInterval, 1000 ms
minRequestInterval == 1
\* the wait after a 429 response without Retry-After, 5000 ms
DefaultRateLimitWait == 5

\* the bboxes fetchResources is called with: OverpassHome and OverpassNear
\* differ in the fourth decimal only
OverpassHome == [south |-> 250000, west |-> 1215000, north |-> 251000, east |-> 1216000]
OverpassNear == [south |-> 250003, west |-> 1214998, north |-> 250996, east |-> 1216004]
OverpassAway == [south |-> 250500, west |-> 1215000, north |-> 251500, east |-> 1216000]
Bboxes == {OverpassHome, OverpassNear, OverpassAway}

\* the resource lists parseElements makes of the bodies the endpoints send
Datasets == {1, 2}

\* what an endpoint answers: a body with elements, a body without, a 429
\* with or without Retry-After (in seconds, -1 for none), or a 500
Responses ==
  {[kind |-> "elements", status |-> 200, data |-> d, retryAfter |-> -1] : d \in Datasets}
    \cup {[kind |-> "noElements", status |-> 200, data |-> 0, retryAfter |-> -1]}
    \cup {[kind |-> "status", status |-> 429, data |-> 0, retryAfter |-> s] : s \in {-1, 2}}
    \cup {[kind |-> "status", status |-> 500, data |-> 0, retryAfter |-> -1]}

\* how long an endpoint takes to answer; RequestTimeout is no answer in time
Latencies == {0, RequestTimeout}

\* how long the page stays idle between two calls
IdleTimes == {cacheExpiry - 1, cacheExpiry}

\* parseFloat(n).toFixed(3) of a coordinate given in 0.0001 degree (the
\* fourth decimal of the inputs is never 5)
toFixed3(n) == IF n >= 0 THEN (n + 5) \div 10 ELSE -((5 - n) \div 10)

getCacheKey(bbox) ==
  <<toFixed3(bbox.south), toFixed3(bbox.west), toFixed3(bbox.north), toFixed3(bbox.east)>>

\* variant: an entry is valid up to and including cacheExpiry
isCacheValidAtExpiry(entry) == entry # null /\ entry.age <= cacheExpiry

isCacheValid(entry) == entry # null /\ entry.age < cacheExpiry

\* cache.get(key)
cacheGet(key) == IF key \in DOMAIN cache THEN cache[key] ELSE null

\* variant: the entry is set and the other entries are dropped
cacheSetAlone(key, data) ==
  [k \in {key} |-> [data |-> data, age |-> 0]]

\* cache.set(key, {data, timestamp: Date.now()})
cacheSet(key, data) ==
  [k \in DOMAIN cache \cup {key} |->
     IF k = key THEN [data |-> data, age |-> 0] ELSE cache[k]]

\* response.ok
ok(r) == r.status >= 200 /\ r.status <= 299

\* the locals of a call that has just begun; of cached, the entry read from
\* the cache, the call reads nothing but the data from here on
NewCall(cacheKey, cached) ==
  [cacheKey |-> cacheKey,
   cached |-> IF cached = null THEN null ELSE [data |-> cached.data],
   at |-> "start",
   retry |-> 0, lastError |-> "none", timer |-> 0, aborts |-> FALSE,
   endpoint |-> 0, requests |-> 0]

\* fetching with one call at old replaced by one at c (old is null when the
\* call has only begun), or without one call at old
WithCall(old, c) ==
  IF old = null THEN fetching (+) SetToBag({c})
  ELSE (fetching (-) SetToBag({old})) (+) SetToBag({c})
WithoutCall(old) == fetching (-) SetToBag({old})

\* no call made in this step
NoCallMade == [called EXCEPT !.bbox = null]

\* no call has returned or thrown in this step
NoOutcome ==
  [kind |-> "none", data |-> 0, error |-> "none", requests |-> 0, by |-> "none"]

\* the call returns data, or throws error, after sending n requests; by is
\* the statement that ended it: the return of the cache hit, the return of
\* the parsed response, or the fallback after the loop
Outcome(kind, data, error, n, by) ==
  [kind |-> kind, data |-> data, error |-> error, requests |-> n, by |-> by]

\* no request sent in this step
NoneSent == [sent EXCEPT !.now = FALSE]

\* an attempt to the endpoint e has thrown
Threw(s, e) == [s EXCEPT !.threw = e]

\* the requests, other than that of the call at old, that no endpoint will
\* answer in time: the endpoints leave one request at a time unanswered
SlowRequests(old) ==
  {b \in BagToSet(IF old = null THEN fetching ELSE WithoutCall(old)) :
     b.at = "request" /\ b.aborts}

\* one pass of the loop body up to its await: the request goes to the
\* endpoint endpointIndex names now, and is answered after latency l
Attempt(old, c, l) ==
  /\ l = RequestTimeout => SlowRequests(old) = {}
  /\ fetching' = WithCall(old, [c EXCEPT !.at = "request", !.timer = l,
                                         !.aborts = (l = RequestTimeout),
                                         !.endpoint = endpointIndex,
                                         !.requests = @ + 1])
  /\ sent' = [since |-> 0, now |-> TRUE, threw |-> -1]
  /\ outcome' = NoOutcome

\* variant: after the loop the call throws, whatever it read from the cache
AfterLoopThrows(old, c, s) ==
  /\ fetching' = WithoutCall(old)
  /\ outcome' = Outcome("threw", 0,
                        IF c.lastError # "none" THEN c.lastError
                        ELSE "Failed to fetch resources",
                        c.requests, "fallback")
  /\ sent' = s

\* after the loop: the expired entry read at the start of the call, if there
\* was one, else throw lastError || new Error('Failed to fetch resources')
AfterLoop(old, c, s) ==
  /\ fetching' = WithoutCall(old)
  /\ outcome' = IF c.cached # null
                  THEN Outcome("returned", c.cached.data, "none", c.requests,
                               "fallback")
                  ELSE Outcome("threw", 0,
                               IF c.lastError # "none" THEN c.lastError
                               ELSE "Failed to fetch resources",
                               c.requests, "fallback")
  /\ sent' = s

\* variant: the loop test lets retry reach maxRetries + 1
NextRetryOnceMore(old, c, l) ==
  IF c.retry + 1 <= maxRetries + 1
    THEN Attempt(old, [c EXCEPT !.retry = @ + 1], l)
    ELSE AfterLoop(old, c, NoneSent)

\* retry++ and the loop test
NextRetry(old, c, l) ==
  IF c.retry + 1 <= maxRetries
    THEN Attempt(old, [c EXCEPT !.retry = @ + 1], l)
    ELSE AfterLoop(old, c, NoneSent)

\* the catch block
Catch(c, error, l) ==
  /\ endpointIndex' = (endpointIndex + 1) % EndpointCount
  /\ IF c.retry < maxRetries
       THEN /\ fetching' = WithCall(c, [c EXCEPT !.lastError = error,
                                                 !.at = "retryWait",
                                                 !.timer = retryDelay])
            /\ sent' = Threw(NoneSent, c.endpoint)
            /\ outcome' = NoOutcome
       ELSE AfterLoop(c, [c EXCEPT !.lastError = error], Threw(NoneSent, c.endpoint))
  /\ called' = NoCallMade
  /\ UNCHANGED <<cache, lastRequestTime>>

InitOverpass ==
  /\ cache = << >>
  /\ endpointIndex = 0
  /\ lastRequestTime = minRequestInterval
  /\ fetching = EmptyBag
  /\ sent = [since |-> minRequestInterval, now |-> FALSE, threw |-> -1]
  /\ called = [count |-> 0, bbox |-> null]
  /\ outcome = NoOutcome
  /\ answered = null

\* fetchResources(bbox), up to its first await or its return
CallFetchResources(bbox, l) ==
  /\ called.count < MaxCalls
  /\ BagCardinality(fetching) < MaxFetching
  /\ called' = [count |-> called.count + 1, bbox |-> bbox]
  /\ LET cacheKey == getCacheKey(bbox)
         cached == cacheGet(cacheKey)
         c == NewCall(cacheKey, cached)
     IN  IF isCacheValid(cached)
           THEN /\ outcome' = Outcome("returned", cached.data, "none", 0, "cache")
                /\ sent' = NoneSent
                /\ UNCHANGED <<cache, endpointIndex, lastRequestTime, fetching>>
           ELSE IF lastRequestTime < minRequestInterval
             THEN /\ fetching' = WithCall(null, [c EXCEPT !.at = "rateWait",
                                    !.timer = minRequestInterval - lastRequestTime])
                  /\ outcome' = NoOutcome
                  /\ sent' = NoneSent
                  /\ UNCHANGED <<cache, endpointIndex, lastRequestTime>>
             ELSE /\ lastRequestTime' = 0
                  /\ Attempt(null, c, l)
                  /\ UNCHANGED <<cache, endpointIndex>>
  /\ answered' = null
  /\ UNCHANGED <<vars, appVars, parseVars>>

\* a sleep of a call at c is over
SleepOver(c, l) ==
  /\ BagIn(c, fetching)
  /\ c.at \in {"rateWait", "retryWait", "limitWait"}
  /\ c.timer = 0
  /\ IF c.at = "rateWait"
       THEN /\ lastRequestTime' = 0
            /\ Attempt(c, c, l)
       ELSE /\ lastRequestTime' = lastRequestTime
            /\ NextRetry(c, c, l)
  /\ called' = NoCallMade
  /\ UNCHANGED <<cache, endpointIndex>>
  /\ answered' = null
  /\ UNCHANGED <<vars, appVars, parseVars>>

\* the endpoint answers the request of a call at c with r
Respond(c, r, l) ==
  /\ BagIn(c, fetching)
  /\ c.at = "request"
  /\ c.timer = 0
  /\ ~c.aborts
  /\ IF ~ok(r)
       THEN Catch(c, "HTTP", l)
     ELSE IF r.status = 429
       THEN /\ fetching' = WithCall(c, [c EXCEPT !.at = "limitWait",
                     !.timer = IF r.retryAfter >= 0 THEN r.retryAfter
                               ELSE DefaultRateLimitWait])
            /\ called' = NoCallMade
            /\ outcome' = NoOutcome
            /\ sent' = NoneSent
            /\ UNCHANGED <<cache, endpointIndex, lastRequestTime>>
     ELSE IF r.kind = "elements"
       THEN /\ cache' = cacheSet(c.cacheKey, r.data)
            /\ fetching' = WithoutCall(c)
            /\ outcome' = Outcome("returned", r.data, "none", c.requests,
                                 "response")
            /\ called' = NoCallMade
            /\ sent' = NoneSent
            /\ UNCHANGED <<endpointIndex, lastRequestTime>>
     ELSE /\ NextRetry(c, c, l)
          /\ called' = NoCallMade
          /\ UNCHANGED <<cache, endpointIndex, lastRequestTime>>
  /\ answered' = IF ok(r) THEN null
                  ELSE [status |-> r.status, retryAfter |-> r.retryAfter]
  /\ UNCHANGED <<vars, appVars, parseVars>>

\* the timeout of fetchWithTimeout aborts the request of a call at c
RequestTimesOut(c, l) ==
  /\ BagIn(c, fetching)
  /\ c.at = "request"
  /\ c.timer = 0
  /\ c.aborts
  /\ Catch(c, "AbortError", l)
  /\ answered' = null
  /\ UNCHANGED <<vars, appVars, parseVars>>

\* the calls that have not returned
Calls == BagToSet(fetching)

\* the time left of the sleeps and requests under way
TimeLeft == {c.timer : c \in Calls}

\* d seconds pass: no sleep and no request is due before
Pass(d) ==
  /\ d > 0
  /\ \A t \in TimeLeft : d <= t
  /\ IF Calls = {}
       THEN d \in IdleTimes /\ called.count < MaxCalls
       ELSE d \in TimeLeft
  /\ cache' = [k \in DOMAIN cache |->
                 [cache[k] EXCEPT !.age = Min(cacheExpiry, @ + d)]]
  /\ lastRequestTime' = Min(minRequestInterval, lastRequestTime + d)
  /\ sent' = [NoneSent EXCEPT !.since = Min(minRequestInterval, @ + d)]
  /\ fetching' = [c \in {[b EXCEPT !.timer = @ - d] : b \in Calls} |->
                    fetching[[c EXCEPT !.timer = @ + d]]]
  /\ called' = NoCallMade
  /\ outcome' = NoOutcome
  /\ UNCHANGED endpointIndex
  /\ answered' = null
  /\ UNCHANGED <<vars, appVars, parseVars>>

\* clearCache(): cache.clear()
ClearCache ==
  /\ cache' = << >>
  /\ called' = NoCallMade
  /\ outcome' = NoOutcome
  /\ sent' = NoneSent
  /\ answered' = null
  /\ UNCHANGED <<endpointIndex, lastRequestTime, fetching>>
  /\ UNCHANGED <<vars, appVars, parseVars>>

NextOverpass ==
  \/ \E bbox \in Bboxes, l \in Latencies : CallFetchResources(bbox, l)
  \/ \E c \in Calls, l \in Latencies : SleepOver(c, l)
  \/ \E c \in Calls, r \in Responses, l \in Latencies : Respond(c, r, l)
  \/ \E c \in Calls, l \in Latencies : RequestTimesOut(c, l)
  \/ \E d \in TimeLeft \cup IdleTimes : Pass(d)

(***************************************************************************)
(* parseElements of OverpassModule.  A JavaScript value is a record with   *)
(* its kind in t: undefined, null, a number (n, an integer in the unit of  *)
(* the field it sits in: 0.0000001 degree for a coordinate, tenths for an  *)
(* id), NaN, Infinity, a string (text, the pieces it is made of, len, the  *)
(* number of its characters, and digits, the integer its leading digits    *)
(* spell, -1 when it does not begin with a digit), an object (v, its own   *)
(* properties) or an array (items).                                        *)
(***************************************************************************)
\* largest number of elements handed to parseElements
MaxElements == 2

Undefined == [t |-> "undefined"]
Null == [t |-> "null"]
NotANumber == [t |-> "NaN"]
Infinity == [t |-> "Infinity"]
Number(n) == [t |-> "number", n |-> n]
String(text, len, digits) ==
  [t |-> "string", text |-> <<text>>, len |-> len, digits |-> digits]
\* a string that is not empty and does not begin with a digit, of a length
\* that plays no part
Text(text) == String(text, 1, -1)
Object(properties) == [t |-> "object", v |-> properties]
Array(items) == [t |-> "array", items |-> items]

\* typeof x
typeof(x) ==
  IF x.t \in {"number", "NaN", "Infinity"} THEN "number"
  ELSE IF x.t \in {"null", "array"} THEN "object"
  ELSE x.t

\* Number.isFinite(x)
isFinite(x) == x.t = "number"

\* x is truthy
Truthy(x) ==
  /\ x.t \notin {"undefined", "null", "NaN"}
  /\ x.t = "number" => x.n # 0
  /\ x.t = "string" => x.len > 0

\* a || b and a && b
Or(a, b) == IF Truthy(a) THEN a ELSE b
And(a, b) == IF Truthy(a) THEN b ELSE a

\* o[key] of a value that is not undefined or null, o?.[key] of any value
Get(o, key) ==
  IF o.t = "object" /\ key \in DOMAIN o.v THEN o.v[key] ELSE Undefined

\* x === the string text
Is(x, text) == x.t = "string" /\ x.text = <<text>>

\* CONFIG.taiwanBounds, in 0.0000001 degree
minLat == 210000000
maxLat == 265000000
minLng == 1190000000
maxLng == 1225000000
\* CONFIG.maxNameLength
maxNameLength == 200
\* the length of '...'
EllipsisLength == 3

\* variant: every finite pair of numbers is a valid coordinate
isValidCoordinateAnywhere(lat, lng) ==
  IF typeof(lat) # "number" \/ typeof(lng) # "number" THEN FALSE
  ELSE isFinite(lat) /\ isFinite(lng)

isValidCoordinate(lat, lng) ==
  IF typeof(lat) # "number" \/ typeof(lng) # "number" THEN FALSE
  ELSE IF ~isFinite(lat) \/ ~isFinite(lng) THEN FALSE
  ELSE lat.n >= minLat /\ lat.n <= maxLat /\ lng.n >= minLng /\ lng.n <= maxLng

getResourceType(tags) ==
  IF ~Truthy(tags) THEN Null
  ELSE IF Is(Get(tags, "amenity"), "hospital") THEN Text("hospital")
  ELSE IF Is(Get(tags, "amenity"), "clinic") THEN Text("clinic")
  ELSE IF Is(Get(tags, "amenity"), "library") THEN Text("library")
  ELSE IF Truthy(Get(tags, "social_facility")) THEN Text("social")
  ELSE IF Is(Get(tags, "amenity"), "pharmacy") THEN Text("pharmacy")
  ELSE IF Is(Get(tags, "amenity"), "community_centre")
    THEN Text("community")
  ELSE IF Is(Get(tags, "amenity"), "kindergarten")
    THEN Text("kindergarten")
  ELSE Null

\* parts.join('') of the truthy address components, in order
JoinParts(tags, keys) ==
  LET parts == SelectSeq(keys, LAMBDA k : Truthy(Get(tags, k)))
      Joined[i \in 0 .. Len(parts)] ==
        IF i = 0 THEN [t |-> "string", text |-> << >>, len |-> 0, digits |-> -1]
        ELSE [Joined[i - 1] EXCEPT
                !.text = @ \o Get(tags, parts[i]).text,
                !.len = @ + Get(tags, parts[i]).len]
  IN  IF Len(parts) > 0 THEN Joined[Len(parts)] ELSE Null

formatAddress(tags) ==
  IF ~Truthy(tags) THEN Null
  ELSE IF Truthy(Get(tags, "addr:full")) THEN Get(tags, "addr:full")
  ELSE JoinParts(tags, <<"addr:city", "addr:district", "addr:street",
                         "addr:housenumber">>)

\* parseInt(x, 10): of a number (in tenths) its integer part, of a string
\* the integer its leading digits spell
parseInt(x) ==
  IF x.t = "number" THEN Number(IF x.n >= 0 THEN x.n \div 10 ELSE -((-x.n) \div 10))
  ELSE IF x.t = "string" /\ x.digits >= 0 THEN Number(x.digits)
  ELSE NotANumber

\* parseFloat(x.toFixed(6)) of a positive coordinate in 0.0000001 degree
\* (the seventh decimal of the inputs is never 5)
toFixed6(n) == ((n + 5) \div 10) * 10

\* name.substring(0, CONFIG.maxNameLength) + '...'
Truncated(name) ==
  [name EXCEPT !.text = @ \o <<"...">>, !.len = maxNameLength + EllipsisLength]

\* the callback of elements.map: the resource made of el, or null
parseElement(el) ==
  IF ~Truthy(el) \/ typeof(el) # "object" THEN Null
  ELSE
    LET lat == Or(Get(el, "lat"), And(Get(el, "center"), Get(Get(el, "center"), "lat")))
        lng == Or(Get(el, "lon"), And(Get(el, "center"), Get(Get(el, "center"), "lon")))
        type == getResourceType(Get(el, "tags"))
        id == parseInt(Get(el, "id"))
        tags == Get(el, "tags")
        name == Or(Get(tags, "name"),
                   Or(Get(tags, "name:zh"), Or(Get(tags, "name:en"), Null)))
    IN  IF ~isValidCoordinate(lat, lng) THEN Null
        ELSE IF ~Truthy(type) THEN Null
        ELSE IF ~isFinite(id) \/ id.n <= 0 THEN Null
        ELSE Object([id |-> id,
                     type |-> type,
                     lat |-> Number(toFixed6(lat.n)),
                     lng |-> Number(toFixed6(lng.n)),
                     name |-> IF Truthy(name) /\ name.t = "string"
                                   /\ name.len > maxNameLength
                                THEN Truncated(name) ELSE name,
                     address |-> formatAddress(tags),
                     tags |-> Or(tags, Object(<< >>))])

\* Array.isArray(x)
isArray(x) == x.t = "array"

parseElements(elements) ==
  IF ~isArray(elements) THEN Array(<< >>)
  ELSE Array(SelectSeq([i \in DOMAIN elements.items |-> parseElement(elements.items[i])],
                       Truthy))

\* tags of an element: its amenity, its name and its address in one piece
Tags(amenity, name) ==
  Object([amenity |-> Text(amenity), name |-> name]
           @@ ("addr:full" :> Text("full")))

\* tags with a name under name:zh only and an address in components
TagsZh(amenity, name) ==
  Object([amenity |-> Text(amenity), social_facility |-> Text("shelter")]
           @@ ("name:zh" :> name) @@ ("name" :> String("", 0, -1))
           @@ ("addr:city" :> Text("city"))
           @@ ("addr:street" :> Text("street")))

Node(lat, lon, id, tags) ==
  Object([type |-> Text("node"), lat |-> lat, lon |-> lon, id |-> id,
          tags |-> tags])

Way(lat, center, id, tags) ==
  Object([type |-> Text("way"), lat |-> lat, center |-> center,
          id |-> id, tags |-> tags])

\* a name of len characters
Name(len) == String("name", len, -1)

\* the elements an endpoint may send: the first four are kept, of the others
\* each fails one check
ElementChoices ==
  {Node(Number(250330004), Number(1215654321), Number(170),
        Tags("hospital", Name(maxNameLength))),
   Way(Undefined, Object([lat |-> Number(229990001), lon |-> Number(1202000002)]),
       String("42abc", 5, 42), TagsZh("school", Name(maxNameLength + 50))),
   Node(Number(maxLat - 1), Number(minLng + 4), Number(127),
        Tags("kindergarten", Name(maxNameLength + 1))),
   Way(Number(0), Object([lat |-> Number(minLat), lon |-> Number(maxLng)]),
       Number(50), Tags("pharmacy", Undefined)),
   Node(Number(maxLat + 1), Number(1215654321), Number(170), Tags("clinic", Name(5))),
   Node(Number(250330004), Number(minLng - 1), Number(170), Tags("clinic", Name(5))),
   Node(NotANumber, Number(1215654321), Number(170), Tags("clinic", Name(5))),
   Node(Number(250330004), Infinity, Number(170), Tags("clinic", Name(5))),
   Node(String("25.033", 6, 25), Number(1215654321), Number(170),
        Tags("library", Name(5))),
   Node(Number(250330004), Number(1215654321), Number(170), Tags("school", Name(5))),
   Node(Number(250330004), Number(1215654321), Number(170), Undefined),
   Node(Number(250330004), Number(1215654321), Number(5),
        Tags("community_centre", Name(5))),
   Node(Number(250330004), Number(1215654321), Number(-30), Tags("clinic", Name(5))),
   Node(Number(250330004), Number(1215654321), String("abc", 3, -1),
        Tags("clinic", Name(5))),
   Node(Number(250330004), Number(1215654321), Undefined, Tags("clinic", Name(5))),
   Null,
   Number(7)}

\* the lists of at most n elements
ElementLists(n) == UNION {[1 .. k -> ElementChoices] : k \in 0 .. n}

\* what parseElements is handed: an array of elements, or something else
ParseInputs ==
  {Array(l) : l \in ElementLists(MaxElements)}
    \cup {Undefined, Null, Object([remark |-> Text("runtime error")]),
          Text("<html>")}

\* no call of parseElements has been made
InitParse ==
  /\ parseInput = Undefined
  /\ parseOutput = Undefined

\* parseElements has been called with one of the inputs and has not returned
ParseElementsCalled ==
  /\ parseInput \in ParseInputs
  /\ parseOutput = Undefined

\* the call returns
ParseElements ==
  /\ parseOutput = Undefined
  /\ parseOutput' = parseElements(parseInput)
  /\ UNCHANGED <<parseInput, vars, appVars, overpassVars>>

NextParse == ParseElements

(***************************************************************************)
(* The specifications.  Each one starts from the three modules as loaded   *)
(* and runs the operations of one of them.                                 *)
(***************************************************************************)
\* the page has loaded the three scripts: each module is as constructed
Loaded == Init /\ InitApp /\ InitOverpass /\ InitParse

\* ContourModule under every sequence of calls of its public operations, the
\* direct calls of generateContours and of the transforms on one sample input
Spec == Loaded /\ [][Next]_vars

\* ContourModule under direct calls of generateContours and of the two
\* transforms (NextContours)
SpecContours == Loaded /\ [][NextContours]_vars

\* ContourModule under direct calls of generateScalarField (NextField)
SpecField == Loaded /\ [][NextField]_vars

\* App under every interleaving of its first fetch, map events, timeouts,
\* direct fetchAndRender calls and the settling of the awaited fetches
SpecApp == Loaded /\ [][NextApp]_appVars

\* OverpassModule under calls of fetchResources that may overlap, with every
\* answer and every latency of the endpoints
SpecOverpass == Loaded /\ [][NextOverpass]_overpassVars

\* the page has loaded and parseElements is called
LoadedAndCalled == Init /\ InitApp /\ InitOverpass /\ ParseElementsCalled

\* parseElements under every input of ParseInputs
\* the page with its event loop running: the timeouts run when they are due
\* and every awaited fetchResources call settles
SpecAppFair ==
  Loaded /\ [][NextAppFair]_appVars /\ WF_appVars(RunTimers) /\ WF_appVars(Settle)
SpecPage == Loaded /\ [][NextPage]_appVars
SpecPanel == Loaded /\ [][NextPanel]_appVars
SpecParse == LoadedAndCalled /\ [][NextParse]_parseVars

(***************************************************************************)
(* Definitions used to state the properties.                               *)
(***************************************************************************)
Range(f) == {f[c] : c \in DOMAIN f}
MinOf(f) == CHOOSE m \in Range(f) : \A v \in Range(f) : m <= v
MaxOf(f) == CHOOSE m \in Range(f) : \A v \in Range(f) : m >= v

RECURSIVE GCD(_, _)
GCD(a, b) == IF b = 0 THEN a ELSE GCD(b, a % b)
Abs(a) == IF a < 0 THEN -a ELSE a
\* a finite fraction with positive denominator, in lowest terms
Reduced(q) ==
  LET g == GCD(Abs(q.num), q.den)
  IN  [num |-> q.num \div g, den |-> q.den \div g]
SameValue(p, q) == IsFinite(p) /\ IsFinite(q) /\ Reduced(p) = Reduced(q)
Less(p, q) ==
  LET a == Reduced(p)
      b == Reduced(q)
  IN  a.num * b.den < b.num * a.den

\* the cell center is farther from the resource than cutoffMultiplier * sigma
FartherThanCutoff(r, c, b, cfg) ==
  DistSqNum(r, CellX(c, cfg), CellY(c, cfg), b, cfg)
    > Cutoff(r, cfg) * Cutoff(r, cfg) * DistSqDen(cfg)

\* what the first n resources of rs give cell c: the Gaussian of every
\* resource whose sub-range holds the cell, each counted once
RECURSIVE SumContributions(_, _, _, _, _)
SumContributions(rs, n, c, b, cfg) ==
  IF n = 0 THEN 0
  ELSE SumContributions(rs, n - 1, c, b, cfg)
       + (IF InSubRange(rs[n], CellX(c, cfg), CellY(c, cfg), b, cfg)
          THEN Energy(rs[n], CellX(c, cfg), CellY(c, cfg), b, cfg)
          ELSE 0)
SumField(rs, n, b, cfg) ==
  [c \in 0 .. (cfg.gridWidth * cfg.gridHeight - 1) |->
     SumContributions(rs, n, c, b, cfg)]

\* the generateContours calls whose input and output the state holds: a
\* direct call that has returned, or step 2 of the running process call
ContourCalls ==
  IF pc = "idle" /\ op = "generateContours"
  THEN {[field |-> call.field, options |-> call.options,
         config |-> call.config, out |-> ret]}
  ELSE IF pc \in {"pixels", "done"}
  THEN {[field |-> field, options |-> NoOptions,
         config |-> call.config, out |-> contours]}
  ELSE {}

\* the level count of a generateContours call
LevelCount(g) ==
  IF "levels" \in DOMAIN g.options /\ g.options["levels"] > 0
  THEN g.options["levels"] ELSE g.config.contourLevels

NonDegenerate(f) == MaxOf(f) >= EnergyFloor /\ MaxOf(f) > MinOf(f)
FlatNonZero(f) == MaxOf(f) = MinOf(f) /\ MaxOf(f) >= EnergyFloor

SameArguments ==
  /\ last.resources = call.resources
  /\ last.bounds = call.bounds
  /\ last.pixelBounds = call.pixelBounds

(***************************************************************************)
(* C1: while generateScalarField adds one resource, every cell whose       *)
(* center is farther than cutoffMultiplier * sigma from the resource keeps *)
(* the value it had.                                                       *)
(***************************************************************************)
C1_FarCellsKeepTheirValue ==
  [][(pc = "field" /\ idx <= Len(resources)) =>
       \A c \in DOMAIN field :
          FartherThanCutoff(resources[idx], c, bounds, CONFIG)
             => field'[c] = field[c]]_vars

C3_FlatFieldGivesNoContour ==
  \A g \in ContourCalls :
     /\ FlatNonZero(g.field) => g.out = << >>
     /\ \A i \in DOMAIN g.out : IsFinite(g.out[i].normalizedValue)

(***************************************************************************)
(* C4: process with an empty resource list returns an all-zero field, no   *)
(* contour, and stats with resourceCount = 0 and contourLevels = 0.        *)
(***************************************************************************)
C4_EmptyListGivesEmptyResult ==
  (pc = "done" /\ call.resources = << >>) =>
     /\ DOMAIN ret.field = 0 .. (CONFIG.gridWidth * CONFIG.gridHeight - 1)
     /\ \A c \in DOMAIN ret.field : ret.field[c] = 0
     /\ ret.contours = << >>
     /\ ret.stats.resourceCount = 0
     /\ ret.stats.contourLevels = 0

C4_Witness ==
  /\ pc = "done"
  /\ call.resources = << >>
  /\ ret.contours = << >>

(***************************************************************************)
(* C5: generateContours returns no contour when the field maximum is below *)
(* the 0.01 floor, and at least one contour when the maximum is at or      *)
(* above the floor and greater than the minimum.                           *)
(***************************************************************************)
C5_FloorDecidesEmptiness ==
  \A g \in ContourCalls :
     /\ MaxOf(g.field) < EnergyFloor => g.out = << >>
     /\ NonDegenerate(g.field) => Len(g.out) > 0

\* a direct call on a field whose maximum is exactly the floor
C5_Witness ==
  /\ pc = "idle"
  /\ op = "generateContours"
  /\ MaxOf(call.field) = EnergyFloor
  /\ MinOf(call.field) = 0
  /\ Len(ret) > 0

(***************************************************************************)
(* C6: for a non-degenerate field and level count L, generateContours      *)
(* returns exactly L contours, the i-th with value                         *)
(* min + i * (max - min) / (L + 1); the values are strictly ascending and  *)
(* lie strictly between min and max.                                       *)
(***************************************************************************)
C6_ThresholdsSplitTheRange ==
  \A g \in ContourCalls :
     NonDegenerate(g.field) =>
       LET mn == MinOf(g.field)
           mx == MaxOf(g.field)
           L  == LevelCount(g)
       IN  /\ Len(g.out) = L
           /\ \A i \in 1 .. L :
                /\ SameValue(g.out[i].value,
                             [num |-> mn * (L + 1) + i * (mx - mn), den |-> L + 1])
                /\ Less([num |-> mn, den |-> 1], g.out[i].value)
                /\ Less(g.out[i].value, [num |-> mx, den |-> 1])
                /\ i < L => Less(g.out[i].value, g.out[i + 1].value)

\* a direct call with {levels: 2} on a field whose minimum is not zero
C6_Witness ==
  /\ pc = "idle"
  /\ op = "generateContours"
  /\ "levels" \in DOMAIN call.options
  /\ call.options["levels"] = 2
  /\ MinOf(call.field) > 0
  /\ NonDegenerate(call.field)
  /\ Len(ret) = 2

(***************************************************************************)
(* C7: every contour of a non-degenerate field has normalizedValue =       *)
(* (value - min) / (max - min) for the min and max of the threshold split; *)
(* the normalizedValues are strictly ascending in the returned order and   *)
(* lie in [0, 1].                                                          *)
(***************************************************************************)
C7_NormalizedValues ==
  \A g \in ContourCalls :
     NonDegenerate(g.field) =>
       LET mn == MinOf(g.field)
           mx == MaxOf(g.field)
       IN  \A i \in DOMAIN g.out :
              LET v == g.out[i].value
                  n == g.out[i].normalizedValue
              IN  /\ SameValue(n, [num |-> v.num - mn * v.den,
                                   den |-> v.den * (mx - mn)])
                  /\ Reduced(n).num >= 0
                  /\ Reduced(n).num <= Reduced(n).den
                  /\ i < Len(g.out) => Less(n, g.out[i + 1].normalizedValue)

\* a direct call, with the default level count, on a field whose minimum is
\* not zero
C7_Witness ==
  /\ pc = "idle"
  /\ op = "generateContours"
  /\ call.options = NoOptions
  /\ MinOf(call.field) > 0
  /\ NonDegenerate(call.field)
  /\ Len(ret) = call.config.contourLevels
  /\ Len(ret) >= 2

(***************************************************************************)
(* C8: a process call made right after a process call with the same        *)
(* resources, geographic window and pixel window returns the same contours *)
(* (values, normalizedValues, grid and pixel rings) and the same           *)
(* resourceCount and contourLevels; processingTime is not compared.        *)
(***************************************************************************)
C8_SameCallTwiceSameContours ==
  (pc = "done" /\ call.again /\ last.valid /\ SameArguments) =>
     /\ last.contours = ret.contours
     /\ last.resourceCount = ret.stats.resourceCount
     /\ last.contourLevels = ret.stats.contourLevels

C8_Witness ==
  /\ pc = "done"
  /\ call.again
  /\ last.valid
  /\ SameArguments
  /\ Len(call.resources) > 0
  /\ Len(ret.contours) > 0

ReferenceContours(rs, b, pb, cfg) ==
  transformToPixels(
     generateContours(SumField(rs, Len(rs), b, cfg), NoOptions, cfg), pb, cfg)

C10_ProcessLeavesInputsUnchanged ==
  (op = "process" /\ pc # "idle") =>
     /\ resources = call.resources
     /\ bounds = call.bounds
     /\ pixelBounds = call.pixelBounds
     /\ CONFIG = call.config
     /\ pc = "done" =>
          /\ DOMAIN ret = {"contours", "field", "stats"}
          /\ DOMAIN ret.stats = {"resourceCount", "contourLevels", "processingTime"}
          /\ ret.stats.resourceCount = Len(call.resources)

C10_Witness ==
  /\ pc = "done"
  /\ op = "process"
  /\ Len(call.resources) = 2
  /\ resources = call.resources
  /\ Len(ret.contours) > 0

\* the pairs <<vertex handed in, vertex returned>> of a transform call, the
\* returned rings read from the key k of the returned contours
VertexPairs(in, out, k) ==
  UNION {UNION {UNION {{<<in[i].coordinates[p][r][v], out[i][k][p][r][v]>> :
                           v \in DOMAIN in[i].coordinates[p][r]} :
                        r \in DOMAIN in[i].coordinates[p]} :
                 p \in DOMAIN in[i].coordinates} :
         i \in DOMAIN in}

TransformReturned(name) == pc = "idle" /\ op = name

(***************************************************************************)
(* C11: transformToPixels maps each grid vertex (x, y) to                  *)
(* px = left + x * width / gridWidth, py = top + (gridHeight - y) * height *)
(* / gridHeight; for a pixel window of positive height and equal x, py is  *)
(* strictly smaller for the larger grid y, y = 0 lands on the bottom edge  *)
(* top + height and y = gridHeight on top.                                 *)
(***************************************************************************)
C11_PixelsFlipTheYAxis ==
  TransformReturned("transformToPixels") =>
     LET pb == call.pixelBounds
         gw == call.config.gridWidth
         gh == call.config.gridHeight
         pairs == VertexPairs(call.contours, ret, "pixelCoordinates")
     IN  /\ \A m \in pairs :
              /\ m[2][1] = pb.left * gw + m[1][1] * pb.width
              /\ m[2][2] = pb.top * gh + (gh - m[1][2]) * pb.height
         /\ pb.height > 0 =>
              /\ \A m, n \in pairs :
                   (m[1][1] = n[1][1] /\ m[1][2] < n[1][2]) => m[2][2] > n[2][2]
              /\ \A m \in pairs :
                   /\ m[1][2] = 0 => m[2][2] = (pb.top + pb.height) * gh
                   /\ m[1][2] = gh => m[2][2] = pb.top * gh

\* a call whose rings hold, for one x, a vertex on grid row 0 and a vertex on
\* grid row gridHeight
C11_Witness ==
  /\ TransformReturned("transformToPixels")
  /\ call.pixelBounds.height > 0
  /\ \E m, n \in VertexPairs(call.contours, ret, "pixelCoordinates") :
       /\ m[1][1] = n[1][1]
       /\ m[1][2] = 0
       /\ n[1][2] = call.config.gridHeight
       /\ m[2][2] > n[2][2]

(***************************************************************************)
(* C12: transformToGeo maps each grid vertex (x, y) to                     *)
(* lng = west + x * cellWidth, lat = south + y * cellHeight, the latitude  *)
(* growing with y; for a window with east > west and north > south the     *)
(* inverse map ((lng - west) / cellWidth, (lat - south) / cellHeight)      *)
(* gives back (x, y).                                                      *)
(***************************************************************************)
C12_GeoIsAffineAndInvertible ==
  TransformReturned("transformToGeo") =>
     LET b == call.bounds
         gw == call.config.gridWidth
         gh == call.config.gridHeight
         pairs == VertexPairs(call.contours, ret, "coordinates")
     IN  /\ \A m \in pairs :
              /\ m[2][1] = b.west * gw + m[1][1] * (b.east - b.west)
              /\ m[2][2] = b.south * gh + m[1][2] * (b.north - b.south)
         /\ (b.east > b.west /\ b.north > b.south) =>
              /\ \A m \in pairs :
                   /\ SameValue(JsDiv(m[2][1] - b.west * gw, b.east - b.west),
                                [num |-> m[1][1], den |-> 1])
                   /\ SameValue(JsDiv(m[2][2] - b.south * gh, b.north - b.south),
                                [num |-> m[1][2], den |-> 1])
              /\ \A m, n \in pairs : m[1][2] < n[1][2] => m[2][2] < n[2][2]

\* a call with the offset window whose rings reach both grid row 0 and grid
\* row gridHeight
C12_Witness ==
  /\ TransformReturned("transformToGeo")
  /\ call.bounds = OffsetWindow
  /\ \E m, n \in VertexPairs(call.contours, ret, "coordinates") :
       /\ m[1][2] = 0
       /\ n[1][2] = call.config.gridHeight
       /\ m[1][1] > 0
       /\ m[2][2] < n[2][2]

\* two nested ring arrays have the same polygons, rings and vertex counts
SameShape(a, b) ==
  /\ DOMAIN a = DOMAIN b
  /\ \A p \in DOMAIN a :
       /\ DOMAIN a[p] = DOMAIN b[p]
       /\ \A r \in DOMAIN a[p] : DOMAIN a[p][r] = DOMAIN b[p][r]

(***************************************************************************)
(* C13: transformToGeo and transformToPixels leave the contours they are   *)
(* handed as they were, and return as many contours, each with as many     *)
(* polygons, rings per polygon and vertices per ring, in the same order,   *)
(* with value and normalizedValue carried over.                            *)
(***************************************************************************)
C13_TransformsKeepInputAndShape ==
  (TransformReturned("transformToGeo") \/ TransformReturned("transformToPixels")) =>
     /\ call.passed = call.contours
     /\ DOMAIN ret = DOMAIN call.contours
     /\ \A i \in DOMAIN call.contours :
          /\ ret[i].value = call.contours[i].value
          /\ ret[i].normalizedValue = call.contours[i].normalizedValue
          /\ ret[i].type = call.contours[i].type
          /\ SameShape(ret[i].coordinates, call.contours[i].coordinates)
          /\ op = "transformToPixels" =>
               /\ ret[i].coordinates = call.contours[i].coordinates
               /\ SameShape(ret[i].pixelCoordinates, call.contours[i].coordinates)

\* a transformToGeo call on two or more contours, one of them with more than
\* one polygon, whose vertices moved
C13_Witness ==
  /\ TransformReturned("transformToGeo")
  /\ Len(call.contours) >= 2
  /\ \E i \in DOMAIN call.contours : Len(call.contours[i].coordinates) >= 2
  /\ ret # call.contours
  /\ call.passed = call.contours

\* the resource's sub-range holds no cell of the grid
TouchesNoCell(r, b, cfg) ==
  \A c \in 0 .. (cfg.gridWidth * cfg.gridHeight - 1) :
     ~InSubRange(r, CellX(c, cfg), CellY(c, cfg), b, cfg)

(***************************************************************************)
(* C14: process generates the field from the resource list, extracts the   *)
(* contours of that field, then maps those contours to pixel space, in     *)
(* that order; it returns the pixel-space contours with stats in which     *)
(* resourceCount is the length of the list handed in, whether or not a     *)
(* resource touches the grid, and contourLevels is the number of contours  *)
(* returned.                                                               *)
(***************************************************************************)
C14_ProcessRunsThePipeline ==
  op = "process" =>
     /\ pc = "field" => contours = Nothing /\ ret = Nothing
     /\ pc = "contours" =>
          /\ idx = Len(call.resources) + 1
          /\ contours = Nothing /\ ret = Nothing
     /\ pc = "pixels" => ret = Nothing
     /\ pc = "done" =>
          /\ ret.field = SumField(call.resources, Len(call.resources),
                                  call.bounds, call.config)
          /\ DOMAIN ret.contours = DOMAIN contours
          /\ \A i \in DOMAIN contours :
               /\ ret.contours[i].value = contours[i].value
               /\ ret.contours[i].normalizedValue = contours[i].normalizedValue
               /\ ret.contours[i].coordinates = contours[i].coordinates
               /\ Len(contours[i].coordinates) =
                    Cardinality({c \in DOMAIN ret.field :
                                   ret.field[c] * contours[i].value.den
                                      >= contours[i].value.num})
               /\ Less([num |-> MinOf(ret.field), den |-> 1], contours[i].value)
                    \/ MinOf(ret.field) = MaxOf(ret.field)
          /\ \A m \in VertexPairs(contours, ret.contours, "pixelCoordinates") :
               /\ m[2][1] = call.pixelBounds.left * call.config.gridWidth
                              + m[1][1] * call.pixelBounds.width
               /\ m[2][2] = call.pixelBounds.top * call.config.gridHeight
                              + (call.config.gridHeight - m[1][2])
                                   * call.pixelBounds.height
          /\ ret.stats.resourceCount = Len(call.resources)
          /\ ret.stats.contourLevels = Len(ret.contours)
          /\ MaxOf(ret.field) < EnergyFloor => ret.stats.contourLevels = 0

\* a call with two resources, one of which touches no cell of the grid, that
\* returned contours
C14_Witness ==
  /\ pc = "done"
  /\ op = "process"
  /\ Len(call.resources) = 2
  /\ \E i \in 1 .. 2 : TouchesNoCell(call.resources[i], call.bounds, call.config)
  /\ ret.stats.resourceCount = 2
  /\ ret.stats.contourLevels = Len(ret.contours)
  /\ Len(ret.contours) > 0

\* the cell c and the cutoff window of r, the rectangle of half-width
\* cutoffMultiplier * sigma around r, overlap in more than an edge
CellMeetsCutoffWindow(r, c, b, cfg) ==
  LET x == CellX(c, cfg)
      y == CellY(c, cfg)
      k == Cutoff(r, cfg)
  IN  /\ b.west * cfg.gridWidth + x * (b.east - b.west) < (r.lng + k) * cfg.gridWidth
      /\ b.west * cfg.gridWidth + (x + 1) * (b.east - b.west) > (r.lng - k) * cfg.gridWidth
      /\ b.south * cfg.gridHeight + y * (b.north - b.south) < (r.lat + k) * cfg.gridHeight
      /\ b.south * cfg.gridHeight + (y + 1) * (b.north - b.south) > (r.lat - k) * cfg.gridHeight

\* the cutoff window of r and the window b have no point in common
CutoffWindowMissesGrid(r, b, cfg) ==
  \/ r.lng + Cutoff(r, cfg) < b.west
  \/ r.lng - Cutoff(r, cfg) > b.east
  \/ r.lat + Cutoff(r, cfg) < b.south
  \/ r.lat - Cutoff(r, cfg) > b.north

OutsideWindow(r, b) ==
  r.lng < b.west \/ r.lng > b.east \/ r.lat < b.south \/ r.lat > b.north

ProperWindow(b) == b.east > b.west /\ b.north > b.south

\* the loop is about to add the resource at position idx
AddingResource == pc = "field" /\ idx <= Len(resources)

(***************************************************************************)
(* C15: a resource outside the geographic window is not skipped for its    *)
(* location: adding it gives its Gaussian to every cell that its cutoff    *)
(* window (cutoffMultiplier * sigma to each side of the point) overlaps.   *)
(***************************************************************************)
C15_OutsidePointsReachTheirCells ==
  [][(AddingResource /\ ProperWindow(bounds)
        /\ OutsideWindow(resources[idx], bounds)) =>
       \A c \in DOMAIN field :
          CellMeetsCutoffWindow(resources[idx], c, bounds, CONFIG) =>
             field'[c] = field[c]
                + Energy(resources[idx], CellX(c, CONFIG), CellY(c, CONFIG),
                         bounds, CONFIG)]_vars

(***************************************************************************)
(* C15 as claimed: a resource outside the geographic window gives its      *)
(* Gaussian to every cell its cutoff window overlaps, and changes no cell  *)
(* when its cutoff window and the grid have no point in common.            *)
(***************************************************************************)
C15_OutsidePointsTouchOnlyTheirWindow ==
  [][(AddingResource /\ ProperWindow(bounds)
        /\ OutsideWindow(resources[idx], bounds)) =>
       /\ \A c \in DOMAIN field :
            CellMeetsCutoffWindow(resources[idx], c, bounds, CONFIG) =>
               field'[c] = field[c]
                  + Energy(resources[idx], CellX(c, CONFIG), CellY(c, CONFIG),
                           bounds, CONFIG)
       /\ CutoffWindowMissesGrid(resources[idx], bounds, CONFIG) =>
            field' = field]_vars

\* a window whose cell width or cell height is zero
DegenerateWindow(b) == b.south = b.north \/ b.west = b.east

\* f holds a finite number in every cell of the grid
FiniteField(f, cfg) ==
  /\ DOMAIN f = 0 .. (cfg.gridWidth * cfg.gridHeight - 1)
  /\ \A c \in DOMAIN f : f[c] \in Nat

(***************************************************************************)
(* C16: for a geographic window with south = north or west = east,         *)
(* generateScalarField and process run to completion: the loop bounds of   *)
(* every resource are integers that keep the loops inside the grid, every  *)
(* resource of the list is passed, and at every step and in the array      *)
(* returned every grid cell holds a finite number (never NaN, never an     *)
(* infinity).                                                              *)
(***************************************************************************)
C16_DegenerateWindowGivesFiniteField ==
  /\ (pc # "idle" /\ DegenerateWindow(call.bounds)) =>
       /\ FiniteField(field, call.config)
       /\ idx \in 1 .. Len(call.resources) + 1
       /\ AddingResource =>
            LET r == resources[idx]
            IN  /\ minX(r, bounds, CONFIG) \in Nat
                /\ maxX(r, bounds, CONFIG) \in Int
                /\ maxX(r, bounds, CONFIG) <= CONFIG.gridWidth - 1
                /\ minY(r, bounds, CONFIG) \in Nat
                /\ maxY(r, bounds, CONFIG) \in Int
                /\ maxY(r, bounds, CONFIG) <= CONFIG.gridHeight - 1
       /\ pc \in {"contours", "pixels", "done"} => idx = Len(call.resources) + 1
       /\ pc = "done" => FiniteField(ret.field, call.config)
  /\ (pc = "idle" /\ op = "generateScalarField" /\ DegenerateWindow(call.bounds)) =>
       FiniteField(ret, call.config)

\* a returned call on a degenerate window with two resources: one whose loop
\* never runs, one that gave energy to a cell
C16_Witness ==
  /\ pc = "idle"
  /\ op = "generateScalarField"
  /\ DegenerateWindow(call.bounds)
  /\ Len(call.resources) = 2
  /\ \E i \in 1 .. 2 : TouchesNoCell(call.resources[i], call.bounds, call.config)
  /\ \E c \in DOMAIN ret : ret[c] > 0
  /\ FiniteField(ret, call.config)

\* this step is a run of fetchAndRender (up to its await or early return)
FetchAndRenderRuns == hist'.runs # hist.runs

\* this step is the callback of a debounce timeout
TimerFired == DOMAIN timers' # DOMAIN timers /\ updateTimer' = updateTimer

\* this step is the listener of map:moveend or map:zoomend
MapEventHandled == mapView' # mapView

(***************************************************************************)
(* C17: at most one fetchResources call started by fetchAndRender is in    *)
(* flight at any time, state.isLoading being true exactly while one is,    *)
(* under every interleaving of the first fetch, timeouts and direct calls; *)
(* a fetchAndRender run that finds state.isLoading true starts no fetch    *)
(* and leaves state.lastBbox as it was.                                    *)
(***************************************************************************)
C17_OneFetchInFlight ==
  [][/\ Len(inFlight') <= 1
     /\ state'.isLoading <=> Len(inFlight') = 1
     /\ (FetchAndRenderRuns /\ state.isLoading) =>
          /\ inFlight' = inFlight
          /\ state'.lastBbox = state.lastBbox]_appVars

\* a fetch is in flight, and a timeout set after the map moved to a view
\* significantly different from the one being fetched has fired since
C17_Witness ==
  /\ state.isLoading
  /\ Len(inFlight) = 1
  /\ mapView.zoom >= MIN_ZOOM_LEVEL
  /\ isBboxSignificantlyDifferent(mapView.bbox, state.lastBbox)
  /\ inFlight[1] = state.lastBbox
  /\ hist.served >= 1
  /\ DOMAIN timers = {}

(***************************************************************************)
(* C18: each map:moveend or map:zoomend event cancels the pending timeout  *)
(* and sets a new one of 500 ms, so at most one timeout is pending, and it *)
(* is pending exactly while events wait for their run; a timeout fires     *)
(* only when 500 ms have passed without an event, its callback is one run  *)
(* of fetchAndRender, and that one run serves every event of the burst.    *)
(***************************************************************************)
C18_OneTimerOneRunPerBurst ==
  [][/\ Cardinality(DOMAIN timers') <= 1
     /\ DOMAIN timers' \subseteq {updateTimer'}
     /\ DOMAIN timers' # {} <=> hist'.events > 0
     /\ MapEventHandled =>
          /\ DOMAIN timers' = {updateTimer'}
          /\ timers'[updateTimer'] = UPDATE_DEBOUNCE
          /\ updateTimer' \notin DOMAIN timers
     /\ TimerFired =>
          /\ hist.quiet >= UPDATE_DEBOUNCE
          /\ FetchAndRenderRuns
          /\ hist.events >= 1
          /\ hist'.served = hist.events
          /\ hist'.events = 0
          /\ DOMAIN timers' = {}]_appVars

\* a timeout has fired for a burst of two or more events and none is pending
C18_Witness ==
  /\ hist.served >= 2
  /\ hist.events = 0
  /\ DOMAIN timers = {}

\* the view cur differs from the view prev as the claim words it: the center
\* moved by more than 0.005 degree, or the height or the width changed by
\* more than 15% of what it was in prev
SignificantlyDifferentFromLast(cur, prev) ==
  \/ AbsDiff(cur.south + cur.north, prev.south + prev.north)
       > 2 * MIN_BBOX_MOVE_THRESHOLD
  \/ AbsDiff(cur.west + cur.east, prev.west + prev.east)
       > 2 * MIN_BBOX_MOVE_THRESHOLD
  \/ 100 * AbsDiff(cur.north - cur.south, prev.north - prev.south)
       > BBOX_SIZE_CHANGE_THRESHOLD * (prev.north - prev.south)
  \/ 100 * AbsDiff(cur.east - cur.west, prev.east - prev.west)
       > BBOX_SIZE_CHANGE_THRESHOLD * (prev.east - prev.west)

(***************************************************************************)
(* C20: a fetchAndRender run at zoom >= 11 with state.isLoading false      *)
(* starts a fetch if and only if state.lastBbox is null or the view's      *)
(* center moved by more than 0.005 degree, or its height or width changed  *)
(* by more than 15%, relative to state.lastBbox; state.lastBbox changes    *)
(* only when a fetch is started, to the bbox fetched.                      *)
(***************************************************************************)
C20_FetchIffViewChanged ==
  [][/\ (FetchAndRenderRuns /\ mapView.zoom >= MIN_ZOOM_LEVEL /\ ~state.isLoading) =>
          (Len(inFlight') = Len(inFlight) + 1
             <=> (state.lastBbox = null
                    \/ SignificantlyDifferentFromLast(mapView.bbox, state.lastBbox)))
     /\ state'.lastBbox # state.lastBbox =>
          /\ FetchAndRenderRuns
          /\ inFlight' = Append(inFlight, state'.lastBbox)
          /\ state'.lastBbox = mapView.bbox]_appVars


\* this step is a call of fetchResources
CallMade == called'.count # called.count

\* this step sends a network request
RequestSent == sent'.now

\* the coordinates of a bbox north and east of the origin, given in 0.0001
\* degree, rounded to 3 decimals
RoundedTo3Decimals(bbox) ==
  <<(bbox.south + 5) \div 10, (bbox.west + 5) \div 10,
    (bbox.north + 5) \div 10, (bbox.east + 5) \div 10>>

(***************************************************************************)
(* C19: a fetchResources(bbox) call made while the cache holds, under the  *)
(* bbox rounded to 3 decimals, an entry younger than 5 minutes returns     *)
(* that entry's data at once, sends no network request and leaves the      *)
(* cache (and every other call) as it was; when the entry is 5 minutes old *)
(* or older, or there is none, the call does not return at once: it goes   *)
(* on to the network.                                                      *)
(***************************************************************************)
C19_FreshEntryAnswersWithoutRequest ==
  [][CallMade =>
       LET key == RoundedTo3Decimals(called'.bbox)
           fresh == key \in DOMAIN cache /\ cache[key].age < cacheExpiry
       IN  /\ fresh =>
                /\ outcome' = Outcome("returned", cache[key].data, "none", 0,
                                      "cache")
                /\ ~RequestSent
                /\ cache' = cache
                /\ fetching' = fetching
           /\ ~fresh =>
                /\ outcome'.kind = "none"
                /\ \E c \in BagToSet(fetching' (-) fetching) :
                     c.at \in {"rateWait", "request"}]_overpassVars

\* a call has just been answered from an entry stored 299 seconds earlier
\* for a bbox that differs from the call's in the fourth decimal
C19_Witness ==
  /\ called.bbox = OverpassNear
  /\ outcome.kind = "returned"
  /\ getCacheKey(OverpassNear) \in DOMAIN cache
  /\ cache[getCacheKey(OverpassNear)].age = cacheExpiry - 1
  /\ fetching = EmptyBag


(***************************************************************************)
(* C21: a fetchAndRender run while the map zoom is below 11 loads no data: *)
(* no fetchResources call is started, the canvas is cleared, the           *)
(* statistics show zero, and state (resources, filteredResources, lastBbox *)
(* and the loading lock with them) is left as it was.                      *)
(***************************************************************************)
C21_LowZoomLoadsNothing ==
  [][(FetchAndRenderRuns /\ mapView.zoom < MIN_ZOOM_LEVEL) =>
       /\ inFlight' = inFlight
       /\ page'.canvas = "cleared"
       /\ page'.total = 0
       /\ state'.resources = state.resources
       /\ state'.filteredResources = state.filteredResources
       /\ state'.lastBbox = state.lastBbox
       /\ state' = state]_appVars

\* the timeout set by a zoom to level 10 has fired while two resources
\* fetched at zoom 13 are held: the canvas is cleared, the resources stay
C21_Witness ==
  /\ mapView = WideView
  /\ hist.served >= 1
  /\ DOMAIN timers = {}
  /\ inFlight = << >>
  /\ state.resources # NoResources
  /\ state.lastBbox = HomeView.bbox
  /\ page.canvas = "cleared"
  /\ page.total = 0
  /\ page.toast = "info"


(***************************************************************************)
(* C22: any two network requests sent by OverpassModule are at least one   *)
(* second apart: whenever a request is sent, within a call or by another   *)
(* call, at least minRequestInterval has passed since the request before.  *)
(***************************************************************************)
C22_RequestsOneSecondApart ==
  [][RequestSent => sent.since >= minRequestInterval]_overpassVars


\* an endpoint has answered a request with 429 in this step
RateLimited == answered' # null /\ answered'.status = 429

(***************************************************************************)
(* C23: when an endpoint answers a request with HTTP 429, the call sleeps  *)
(* for the seconds of the Retry-After header, 5 when there is none, before *)
(* its next attempt, and the answer is not handled as a thrown failure: no *)
(* attempt has thrown and endpointIndex stays.                             *)
(***************************************************************************)
C23_RateLimitedWaitsRetryAfter ==
  [][RateLimited =>
       /\ sent'.threw = -1
       /\ endpointIndex' = endpointIndex
       /\ \E c \in BagToSet(fetching' (-) fetching) :
            /\ c.at = "limitWait"
            /\ c.timer = IF answered'.retryAfter >= 0 THEN answered'.retryAfter
                         ELSE DefaultRateLimitWait]_overpassVars


\* a step of a call that is under way, or of the clock
Advance ==
  \/ \E c \in Calls, l \in Latencies : SleepOver(c, l)
  \/ \E c \in Calls, r \in Responses, l \in Latencies : Respond(c, r, l)
  \/ \E c \in Calls, l \in Latencies : RequestTimesOut(c, l)
  \/ \E d \in TimeLeft \cup IdleTimes : Pass(d)

\* fetchResources called as App.fetchAndRender calls it, under the isLoading
\* lock: no call begins while another has not returned
CallWhenNotLoading(bbox, l) ==
  /\ fetching = EmptyBag
  /\ CallFetchResources(bbox, l)

NextOverpassFair ==
  \/ \E bbox \in Bboxes, l \in Latencies : CallWhenNotLoading(bbox, l)
  \/ Advance

\* OverpassModule as the page drives it, with the event loop running: a sleep
\* that is over resumes its call, a request is answered or aborted by its
\* timeout, and time passes
SpecOverpassFair ==
  Loaded /\ [][NextOverpassFair]_overpassVars /\ WF_overpassVars(Advance)

\* OverpassModule as the page drives it, and clearCache called at any time
NextOverpassCache ==
  \/ NextOverpassFair
  \/ ClearCache

SpecOverpassCache == Loaded /\ [][NextOverpassCache]_overpassVars

Moved(c) == BagIn(c, fetching (-) fetching')

\* the error the call c has caught last, the one of this step included
LastCaught(c) ==
  IF endpointIndex' = endpointIndex THEN c.lastError
  ELSE IF c.aborts THEN "AbortError" ELSE "HTTP"

\* what the call c throws when every attempt has failed
FallbackError(c) ==
  IF LastCaught(c) # "none" THEN LastCaught(c) ELSE "Failed to fetch resources"

(***************************************************************************)
(* C29 as claimed: when every attempt of a call has failed, the call       *)
(* returns the data of the entry the cache holds under its key, expired or *)
(* not, and throws only when the cache holds none: the error caught last,  *)
(* or 'Failed to fetch resources' when no attempt threw.                   *)
(***************************************************************************)
C29_FallbackReturnsStoredEntry ==
  [][outcome'.by = "fallback" =>
       \E c \in Calls :
          /\ Moved(c)
          /\ IF c.cacheKey \in DOMAIN cache
               THEN /\ outcome'.kind = "returned"
                    /\ outcome'.data = cache[c.cacheKey].data
               ELSE /\ outcome'.kind = "threw"
                    /\ outcome'.error = FallbackError(c)]_overpassVars

\* the entries the calls of f have read when they began
EntriesRead(f) == {<<c.cacheKey, c.cached>> : c \in BagToSet(f)}

(***************************************************************************)
(* C29: a call keeps the entry it read under its key when it began; when   *)
(* every attempt has failed it returns the data of that entry, expired or  *)
(* not, and throws only when there was none: the error caught last, or     *)
(* 'Failed to fetch resources' when no attempt threw.                      *)
(***************************************************************************)
C29_FallbackReturnsEntryReadAtStart ==
  [][/\ (CallMade /\ outcome'.kind = "none") =>
          \E c \in BagToSet(fetching' (-) fetching) :
             /\ c.cacheKey = getCacheKey(called'.bbox)
             /\ IF c.cacheKey \in DOMAIN cache
                  THEN c.cached = [data |-> cache[c.cacheKey].data]
                  ELSE c.cached = null
     /\ ~CallMade => EntriesRead(fetching') \subseteq EntriesRead(fetching)
     /\ outcome'.by = "fallback" =>
          \E c \in Calls :
             /\ Moved(c)
             /\ IF c.cached # null
                  THEN /\ outcome'.kind = "returned"
                       /\ outcome'.data = c.cached.data
                  ELSE /\ outcome'.kind = "threw"
                       /\ outcome'.error = FallbackError(c)]_overpassVars

\* a call has returned the data of an expired entry after three failed
\* attempts
C29_Witness ==
  /\ outcome.by = "fallback"
  /\ outcome.kind = "returned"
  /\ outcome.requests = maxRetries + 1
  /\ \E k \in DOMAIN cache :
       cache[k].age >= cacheExpiry /\ cache[k].data = outcome.data


\* an attempt has thrown in this step: the endpoint gave an answer that is
\* not ok, or the timeout aborted the request
AttemptThrew ==
  \/ answered' # null /\ ~ok(answered')
  \/ \E c \in Calls : c.at = "request" /\ c.aborts /\ c.timer = 0 /\ Moved(c)

(***************************************************************************)
(* C30: endpointIndex is always one of 0 .. endpoints.length - 1; an       *)
(* attempt that throws advances it by one modulo the number of endpoints,  *)
(* and the next request, of the same call or of another, goes to another   *)
(* endpoint than the attempt that threw; an attempt answered with elements *)
(* leaves endpointIndex as it was.                                         *)
(***************************************************************************)
C30_FailedAttemptMovesToOtherEndpoint ==
  [][/\ endpointIndex' \in 0 .. EndpointCount - 1
     /\ AttemptThrew => endpointIndex' = (endpointIndex + 1) % EndpointCount
     /\ outcome'.by = "response" => endpointIndex' = endpointIndex
     /\ (RequestSent /\ sent.threw # -1) =>
          \E c \in BagToSet(fetching' (-) fetching) :
             c.at = "request" /\ c.endpoint # sent.threw]_overpassVars


\* the seven recognized types
ResourceTypes ==
  {"hospital", "clinic", "library", "social", "pharmacy", "community",
   "kindergarten"}

\* x is a finite number from lo to hi
NumberWithin(x, lo, hi) == x.t = "number" /\ x.n >= lo /\ x.n <= hi

\* the coordinate of el under key: its own, or that of its center
CoordinateOf(el, key) ==
  IF Truthy(Get(el, key)) THEN Get(el, key) ELSE Get(Get(el, "center"), key)

\* el passes the checks of coordinates, type and id
PassesChecks(el) ==
  /\ el.t = "object"
  /\ NumberWithin(CoordinateOf(el, "lat"), minLat, maxLat)
  /\ NumberWithin(CoordinateOf(el, "lon"), minLng, maxLng)
  /\ getResourceType(Get(el, "tags")) # Null
  /\ NumberWithin(parseInt(Get(el, "id")), 1, parseInt(Get(el, "id")).n)

\* parseElements has returned
ParseElementsReturned == parseOutput # Undefined

(***************************************************************************)
(* C24: parseElements returns an array for every input, the empty one for  *)
(* an input that is not an array; every resource in it has a finite lat in *)
(* [21.0, 26.5], a finite lng in [119.0, 122.5], a positive integer id and *)
(* one of the seven types; and it holds as many resources as the input has *)
(* elements that pass the checks: the others are left out.                 *)
(***************************************************************************)
C24_ParsedResourcesAreValid ==
  ParseElementsReturned =>
     /\ isArray(parseOutput)
     /\ ~isArray(parseInput) => parseOutput.items = << >>
     /\ \A i \in DOMAIN parseOutput.items :
          LET r == parseOutput.items[i].v
          IN  /\ NumberWithin(r.lat, minLat, maxLat)
              /\ NumberWithin(r.lng, minLng, maxLng)
              /\ r.id.t = "number" /\ r.id.n \in Nat \ {0}
              /\ r.type.t = "string"
              /\ r.type.text \in {<<t>> : t \in ResourceTypes}
     /\ isArray(parseInput) =>
          Len(parseOutput.items) =
            Cardinality({i \in DOMAIN parseInput.items : PassesChecks(parseInput.items[i])})

\* two elements handed in, one of them left out and the other kept with its
\* latitude rounded to the upper bound
C24_Witness ==
  /\ ParseElementsReturned
  /\ isArray(parseInput)
  /\ Len(parseInput.items) = 2
  /\ Len(parseOutput.items) = 1
  /\ parseOutput.items[1].v.lat.n = maxLat
  /\ ~PassesChecks(parseInput.items[1])

(***************************************************************************)
(* C25: the name of every resource parseElements returns is null or a      *)
(* string of at most 200 characters.                                       *)
(***************************************************************************)
C25_NamesAtMost200Characters ==
  ParseElementsReturned =>
     \A i \in DOMAIN parseOutput.items :
        LET name == parseOutput.items[i].v.name
        IN  name = Null \/ (name.t = "string" /\ name.len <= maxNameLength)


\* the list kept is the sub-list, in the same order, of the resources whose
\* type has its filter enabled: its k-th item is the resource at the k-th
\* smallest position holding an enabled type
KeptInOrder(kept, all, filters) ==
  LET enabled == {i \in DOMAIN all : filters[all[i].type]}
      Position(k) ==
        CHOOSE i \in enabled : Cardinality({j \in enabled : j < i}) = k - 1
  IN  /\ Len(kept) = Cardinality(enabled)
      /\ \A k \in DOMAIN kept : kept[k] = all[Position(k)]

\* C26: after every filter change and every successful fetch (and so in
\* every state a step leads to) state.filteredResources is the sub-list of
\* state.resources, in the same order, of the resources whose type has its
\* filter enabled; a step that changes a filter issues no request and
\* changes neither state.resources nor state.lastBbox
C26_FilteredIsEnabledSublist ==
  [][/\ KeptInOrder(state'.filteredResources.items, state'.resources.items,
                    state'.filters)
     /\ state'.filters # state.filters
          => /\ inFlight' = inFlight
             /\ state'.resources = state.resources
             /\ state'.lastBbox = state.lastBbox]_appVars

\* three resources were fetched, the clinics are filtered out, and the two
\* hospitals are kept in their order
C26_Witness ==
  /\ ~state.filters["clinic"]
  /\ state.filters["hospital"]
  /\ Len(state.resources.items) = 3
  /\ state.filteredResources.items
       = <<state.resources.items[1], state.resources.items[3]>>
  /\ page.total = 2

\* the resource is less than 0.002 degree from the point
WithinReach(resource, latlng) == SquaredDistance(resource, latlng) < 2 * 2

\* the step is a run of handleMapClick
MapClicked == hist'.clicks # hist.clicks

\* C27: a map click selects the resource of state.filteredResources nearest
\* to the click provided it is less than 0.002 degree away, the first such
\* resource winning ties; when no filtered resource is that near the
\* selection is cleared; so the selection is null or a member of
\* filteredResources as it was at the click
C27_ClickSelectsNearestWithinReach ==
  [][MapClicked =>
       LET latlng == hist'.click
           items == state.filteredResources.items
           near == {i \in DOMAIN items : WithinReach(items[i], latlng)}
       IN  /\ IF near = {}
              THEN state'.selectedResource = null
              ELSE \E i \in near :
                     /\ \A j \in near :
                          SquaredDistance(items[i], latlng)
                            <= SquaredDistance(items[j], latlng)
                     /\ \A j \in near :
                          j < i => SquaredDistance(items[j], latlng)
                                     > SquaredDistance(items[i], latlng)
                     /\ state'.selectedResource = items[i]
           /\ \/ state'.selectedResource = null
              \/ \E i \in DOMAIN items : items[i] = state'.selectedResource
    ]_appVars

\* the click was as near to the clinic as to the second hospital, nearer
\* than to the first hospital, and the clinic, which comes first, is selected
C27_Witness ==
  /\ hist.click # null
  /\ Len(state.filteredResources.items) = 3
  /\ LET items == state.filteredResources.items
     IN  /\ SquaredDistance(items[2], hist.click)
              = SquaredDistance(items[3], hist.click)
         /\ SquaredDistance(items[2], hist.click)
              < SquaredDistance(items[1], hist.click)
         /\ WithinReach(items[1], hist.click)
         /\ state.selectedResource = items[2]
  /\ page.panel = "shown"

\* the entry under k is written in this step: it is new, or its data differ,
\* or it is younger than it was
Written(k) ==
  \/ k \notin DOMAIN cache
  \/ cache'[k].data # cache[k].data
  \/ cache'[k].age < cache[k].age

\* the cache is emptied in this step, by no step of a fetchResources call
Cleared ==
  /\ cache' = << >>
  /\ fetching' = fetching
  /\ outcome' = NoOutcome
  /\ ~CallMade

(***************************************************************************)
(* C31: an entry of the cache is written only in the step in which an      *)
(* attempt returns a body with elements, and only under the key of the     *)
(* bbox that call was made for; a call that throws, a call that falls back *)
(* and a cache hit leave the cache as it was; and an entry is removed only *)
(* when the cache is cleared.                                              *)
(***************************************************************************)
C31_CacheWrittenOnlyOnElements ==
  [][/\ \A k \in DOMAIN cache' :
          Written(k) =>
             /\ outcome'.by = "response"
             /\ \E c \in Calls : Moved(c) /\ c.cacheKey = k
     /\ outcome'.by = "response" =>
          \E c \in Calls :
             /\ Moved(c)
             /\ c.cacheKey \in DOMAIN cache'
             /\ cache'[c.cacheKey] = [data |-> outcome'.data, age |-> 0]
             /\ \A k \in DOMAIN cache \ {c.cacheKey} :
                   k \in DOMAIN cache' /\ cache'[k] = cache[k]
     /\ (outcome'.kind = "threw" \/ outcome'.by \in {"cache", "fallback"})
          => cache' = cache
     /\ (\E k \in DOMAIN cache : k \notin DOMAIN cache') => Cleared
    ]_overpassVars

\* a second entry has just been written beside the first, which is kept
C31_Witness ==
  /\ outcome.by = "response"
  /\ Cardinality(DOMAIN cache) = 2
  /\ \E k \in DOMAIN cache : cache[k].age > 0
  /\ \E k \in DOMAIN cache : cache[k].age = 0 /\ cache[k].data = outcome.data

C33_SettledViewWasFetched ==
  (/\ started
   /\ mapView.zoom >= MIN_ZOOM_LEVEL
   /\ DOMAIN timers = {}
   /\ inFlight = << >>)
    => ~isBboxSignificantlyDifferent(mapView.bbox, state.lastBbox)

(***************************************************************************)
(* C34: whenever no fetch is in flight, state.resources is the list the    *)
(* fetch made for state.lastBbox returned, or both hold their initial      *)
(* values: state.lastBbox names no view whose fetch did not succeed.       *)
(***************************************************************************)
C34_ResourcesAreThoseOfLastBbox ==
  inFlight = << >> =>
     /\ state.resources.bbox = state.lastBbox
     /\ state.lastBbox # null =>
          \E n \in ResultSizes :
             state.resources.items = Fetched(state.lastBbox, n)

\* the awaited fetchResources call has thrown in this step
FetchThrew == Len(inFlight') < Len(inFlight) /\ hist'.settled = "threw"

(***************************************************************************)
(* C35: when the awaited fetchResources call throws, state.resources,      *)
(* state.filteredResources and state.contours keep their values, the       *)
(* canvas and the statistics are left as they were, the error message is   *)
(* shown, and fetchAndRender returns.                                      *)
(***************************************************************************)
C35_ThrownFetchKeepsResources ==
  [][FetchThrew =>
       /\ state'.resources = state.resources
       /\ state'.filteredResources = state.filteredResources
       /\ state'.contours = state.contours
       /\ page'.canvas = page.canvas
       /\ page'.total = page.total
       /\ page'.toast = "error"
       /\ hist'.ended = "returned"]_appVars

\* a fetch made for another view has thrown: the resources and the contours
\* drawn are those of the view fetched before
C35_Witness ==
  /\ hist.settled = "threw"
  /\ inFlight = << >>
  /\ page.toast = "error"
  /\ page.canvas = "contours"
  /\ Len(state.resources.items) > 0
  /\ state.contours = ContoursOf(state.filteredResources)
  /\ state.resources.bbox # state.lastBbox

(***************************************************************************)
(* C36: once the page has started, no update timer is pending and no fetch *)
(* is in flight, if the zoom is at least MIN_ZOOM_LEVEL and                *)
(* state.filteredResources is not empty, the canvas shows the contours of  *)
(* state.filteredResources.                                                *)
(***************************************************************************)
C36_SettledCanvasShowsContours ==
  (/\ started
   /\ DOMAIN timers = {}
   /\ inFlight = << >>
   /\ mapView.zoom >= MIN_ZOOM_LEVEL
   /\ Len(state.filteredResources.items) > 0)
    => /\ page.canvas = "contours"
       /\ state.contours = ContoursOf(state.filteredResources)

(***************************************************************************)
(* C37: while the zoom is below MIN_ZOOM_LEVEL and the update timer set by *)
(* the last move or zoom has fired, the canvas is cleared and the total of *)
(* the statistics is zero, whatever filter change, resize, theme change or *)
(* completion of a fetch has happened since.                               *)
(***************************************************************************)
C37_LowZoomStaysCleared ==
  (/\ mapView.zoom < MIN_ZOOM_LEVEL
   /\ DOMAIN timers = {}
   /\ hist.served >= 1)
    => /\ page.canvas = "cleared"
       /\ page.total = 0


\* the window has a positive extent in both directions
PositiveWindow(b) == b.south < b.north /\ b.west < b.east

\* the cell center lies within cutoffMultiplier * sigma of the resource
WithinCutoff(r, c, b, cfg) == ~FartherThanCutoff(r, c, b, cfg)

(***************************************************************************)
(* C38: for a window of positive extent, while generateScalarField adds    *)
(* one resource, every grid cell whose center lies within                  *)
(* cutoffMultiplier * sigma of the resource is in the sub-range the        *)
(* resource updates and receives the resource's Gaussian: truncation drops *)
(* no contribution from inside the cutoff radius.                          *)
(***************************************************************************)
C38_CellsWithinCutoffAreUpdated ==
  [][(pc = "field" /\ idx <= Len(resources) /\ PositiveWindow(bounds)) =>
       \A c \in DOMAIN field :
          WithinCutoff(resources[idx], c, bounds, CONFIG) =>
             /\ InSubRange(resources[idx], CellX(c, CONFIG), CellY(c, CONFIG),
                           bounds, CONFIG)
             /\ field'[c] = field[c] + Energy(resources[idx], CellX(c, CONFIG),
                                              CellY(c, CONFIG), bounds, CONFIG)]_vars

\* a resource has just been added in a window of positive extent: a cell
\* whose west edge lies outside the resource's cutoff window has its center
\* within the cutoff radius and holds the resource's energy, and another cell
\* lies beyond the radius
C38_Witness ==
  /\ pc = "field" /\ idx = 2
  /\ PositiveWindow(bounds)
  /\ LET r == resources[1]
     IN  \E c, d \in DOMAIN field :
            /\ WithinCutoff(r, c, bounds, CONFIG)
            /\ CellX(c, CONFIG) * (bounds.east - bounds.west)
                 < (r.lng - Cutoff(r, CONFIG) - bounds.west) * CONFIG.gridWidth
            /\ field[c] > 0
            /\ field[c] = Energy(r, CellX(c, CONFIG), CellY(c, CONFIG),
                                 bounds, CONFIG)
            /\ FartherThanCutoff(r, d, bounds, CONFIG)

====
